---------------------------- MODULE Spec2Model ----------------------------
(***************************************************************************)
(* Read2Me: the audiobook player of src/app.js (lines 1-939).              *)
(*                                                                         *)
(* The player is single-threaded and event driven.  Every step of the      *)
(* model is one task of the JavaScript event loop: a user command, a       *)
(* speech callback, a timer, or the completion of an IndexedDB request,    *)
(* together with all the promise continuations (microtasks) it triggers.   *)
(* An invocation of playDocument or skipParagraph that reaches its await   *)
(* is a "narration chain": a coroutine that walks speakParagraph /         *)
(* speakParagraphBrowser / speakParagraphFlutter.                          *)
(***************************************************************************)
EXTENDS Integers, Sequences, FiniteSets, Bags, TLC

\* ------------------------------------------------------------------ bounds
\* number of narration chains that may be alive at the same time
MaxChains == 2
\* number of IndexedDB operations that may be in flight at the same time
MaxPending == 2
\* number of user commands in a run of the library specification
MaxCmds == 4
\* longest text handed to the segmenter
MaxLen == 5
\* number of files of one upload
MaxFiles == 2

\* ------------------------------------------------------------ sample data
NoDoc == "none"
Doc == {"d1", "d2"}
NoPos == -1

\* number of sentences of each paragraph of the sample documents, as
\* splitIntoParagraphs would have stored them (never a paragraph without
\* sentence: splitIntoSentences falls back to the whole text)
SentenceCounts(d) == IF d = "d1" THEN <<2, 1>> ELSE <<1>>

\* doc.paragraphs: the paragraph objects of a document
DocParagraphs(d) ==
    [i \in 1..Len(SentenceCounts(d)) |->
        [doc |-> d, number |-> i, sentences |-> SentenceCounts(d)[i]]]

NoPara == [doc |-> NoDoc, number |-> 0, sentences |-> 0]
NoReq == <<>>
NoMark == [cmd |-> "none", want |-> NoReq]

VARIABLES
    isFlutter,               \* const isFlutter
    currentDocument,         \* id of currentDocument, NoDoc for null
    paragraphs,              \* the global paragraphs array
    currentParagraphIndex,
    currentSentenceIndex,
    isPaused,
    isPlaying,
    timers,                  \* chains awaiting a setTimeout, in firing order
    queue,                   \* utterance queue of window.speechSynthesis
    waiting,                 \* requests whose callback is still to arrive
    synthPaused,             \* window.speechSynthesis.paused
    docStore,                \* object store 'documents' (ids)
    positions,               \* object store 'positions': id -> paragraphIndex
    pending,                 \* IndexedDB operations in flight
    cmds,                    \* number of user commands so far
    lastReq,                 \* history: the last speak request
    mark,                    \* history: the last command, until the next request
    afterStop,               \* history: stop was the last to touch the cursor
    lastStep,                \* history: what the previous step was
    endSkip,                 \* history: skipped past the end, not restarted
    progress,                \* what updateProgress showed last
    run,                     \* history: playback from the start, undisturbed
    afterFail,               \* history: a failure callback made the last request
    stopped,                 \* history: stopReading ran, no pause or load since
    text,                    \* the text handed to splitIntoParagraphs
    result,                  \* what splitIntoParagraphs returned for it
    route,                   \* the upload in progress: reader or file picker
    batch,                   \* event.target.files.length
    fileIndex,               \* the file the loop of handleFileUpload is at
    file,                    \* that file
    pc,                      \* where the upload handler is
    touched,                 \* history: what was done with the file
    verdict,                 \* history: how the file ended
    outcomes,                \* history: the verdicts of the files so far
    uploaded,                \* the documents the upload stored
    readerDocument,          \* the file currentDocument and paragraphs are of
    documents,               \* object store DOCUMENTS_STORE (ids)
    summaries,               \* object store SUMMARIES_STORE
    chatHistory,             \* object store CHAT_HISTORY_STORE
    calls,                   \* the calls of the storage layer, in call order
    created,                 \* number of transactions and keys so far
    voiceList,               \* window.speechSynthesis.getVoices()
    options,                 \* the voices listed in the select voiceSelect
    savedVoice,              \* localStorage readtome_voice_<code>
    ttsVoice,                \* ttsSettings.voice
    documentLanguage,        \* currentDocument?.language || 'en-US'
    speaking,                \* the call of speakParagraphBrowser in progress
    utterance,               \* the last utterance handed to speak()
    attached,                \* localStorage mila_attached_documents
    lastCall,                \* history: the last call of the attachment API
    selectedForDeletionIds,  \* the Set of the file picker, in insertion order
    deletion,                \* deleteSelectedFiles: where it is, what it did
    now,                     \* Date.now()
    reply,                   \* history: the last chat call and its result
    str1,                    \* the arguments of calculateSimilarity
    str2,
    similarity,              \* what it returned, NotCalled before the call
    matrix                   \* levenshteinDistance: the row filled last

ctl == <<isPlaying, isPaused, currentParagraphIndex, currentSentenceIndex>>
docv == <<currentDocument, paragraphs>>
store == <<docStore, positions>>
backend == <<timers, queue, waiting, synthPaused>>
vars == <<isFlutter, currentDocument, paragraphs, currentParagraphIndex,
          currentSentenceIndex, isPaused, isPlaying, timers, queue, waiting,
          synthPaused, docStore, positions, pending, cmds, lastReq, mark,
          afterStop, lastStep, endSkip, progress, run, afterFail, stopped, text,
          result, route, batch, fileIndex, file, pc, touched, verdict,
          outcomes, uploaded, readerDocument, documents, summaries, chatHistory, calls,
          created, voiceList, options, savedVoice, ttsVoice,
          documentLanguage, speaking, utterance, attached, lastCall,
          selectedForDeletionIds, deletion, now, reply, str1, str2,
          similarity, matrix>>

\* the variables of the player, of the segmenter and of the upload
playerv == <<isFlutter, docv, ctl, backend, store, pending, cmds, lastReq,
             mark, afterStop, lastStep, endSkip, progress, run, afterFail,
             stopped>>
segv == <<text, result>>
ingestv == <<route, batch, fileIndex, file, pc, touched, verdict, outcomes,
             uploaded, readerDocument>>
dbv == <<documents, summaries, chatHistory, calls, created>>
voicev == <<voiceList, options, savedVoice, ttsVoice, documentLanguage,
            speaking, utterance>>
attachv == <<attached, lastCall>>
pickv == <<selectedForDeletionIds, deletion>>
chatv == <<now, reply>>
simv == <<str1, str2, similarity, matrix>>

\* what a step of the player, of the segmenter, of the upload, of the
\* storage layer and of the voice selection leaves alone
offPlayer == <<segv, ingestv, dbv, voicev, attachv, pickv, chatv, simv>>
offSegmenter == <<playerv, ingestv, dbv, voicev, attachv, pickv, chatv, simv>>
offUpload == <<playerv, segv, dbv, voicev, attachv, pickv, chatv, simv>>
offStorage == <<playerv, segv, ingestv, voicev, attachv, pickv, chatv, simv>>
offVoice == <<playerv, segv, ingestv, dbv, attachv, pickv, chatv, simv>>
offAttach == <<playerv, segv, ingestv, dbv, voicev, pickv, chatv, simv>>
offPicker == <<playerv, segv, ingestv, voicev, summaries, chatHistory, calls,
               created, lastCall, chatv, simv>>
offChat == <<playerv, segv, ingestv, voicev, attachv, pickv, documents,
             summaries, calls, created, simv>>
offSimilarity == <<playerv, segv, ingestv, dbv, voicev, attachv, pickv, chatv>>

\* ---------------------------------------------------------------- helpers
Max(a, b) == IF a >= b THEN a ELSE b

InsertAt(s, k, e) == SubSeq(s, 1, k) \o <<e>> \o SubSeq(s, k + 1, Len(s))

RemoveAt(s, k) == SubSeq(s, 1, k - 1) \o SubSeq(s, k + 1, Len(s))

\* a request at the backend: sentence s of paragraph object p, with
\* t = "active" until something cancels it
Utt(p, s, t) == [paragraph |-> p, sent |-> s, utt |-> t]
NoWaiting == EmptyBag

\* the requests of w the backend is working on
ActiveOf(w) == [u \in {x \in DOMAIN w : x.utt = "active"} |-> w[u]]

\* the narration chains alive: each awaits a timer or a backend callback
Live == Len(timers) + Len(queue) + BagCardinality(waiting)
HasFree == Live < MaxChains

\* the requests the backend is working on
Outstanding == Len(queue) + BagCardinality(ActiveOf(waiting))

\* setTimeout(f, ms): timers fire in the order of their deadlines; a timer
\* of 100 ms is due after every timer already set, a timer of 50 ms is due
\* after every 50 ms timer already set and before or after the 100 ms ones.
TimerSlots(tm, ms) ==
    IF ms = 100 THEN {Len(tm)}
    ELSE LET S == {i \in 1..Len(tm) : tm[i].ms = 50}
             lo == IF S = {} THEN 0 ELSE CHOOSE i \in S : \A j \in S : j <= i
         IN  lo..Len(tm)

StartTimerOf == [ms |-> 100, pc |-> "timer", paragraph |-> NoPara, sent |-> 0]

\* window.speechSynthesis.cancel() / callHandler('ttsStop'): every request
\* the backend still holds (q and the active ones of w) is cancelled; its
\* callback is delivered later.
Cancel(q, w, tag) ==
    LET act == {u \in DOMAIN w : u.utt = "active"}
        kept == [u \in DOMAIN w \ act |-> w[u]]
        moved == [u \in {Utt(x.paragraph, x.sent, tag) : x \in act} |->
                     w[Utt(u.paragraph, u.sent, "active")]]
        spoken == [u \in {Utt(q[i].paragraph, q[i].sent, tag) : i \in 1..Len(q)} |->
                     Cardinality({i \in 1..Len(q) :
                        q[i] = [paragraph |-> u.paragraph, sent |-> u.sent]})]
    IN  kept (+) moved (+) spoken

\* the speak request for sentence s (0-based) of paragraph object p
Req(p, s) == <<p.doc, p.number - 1, s>>

\* clearReadingPosition(), app.js 914-917: returns at once without a
\* document, otherwise awaits initializeStorage()
clearReadingPosition(pd) ==
    IF currentDocument = NoDoc THEN pd
    ELSE Append(pd, [kind |-> "clearPos", stage |-> "open", doc |-> NoDoc,
                     val |-> NoPos])

\* saveReadingPosition(), app.js 866-869: the same shape
saveReadingPosition(pd) ==
    IF currentDocument = NoDoc THEN pd
    ELSE Append(pd, [kind |-> "savePos", stage |-> "open", doc |-> NoDoc,
                     val |-> NoPos])

Room(pd) == currentDocument = NoDoc \/ Len(pd) < MaxPending

\* ----------------------------------------------------------- stopReading
\* stopReading without the reset of the sentence position (line 511)
stopReadingKeepsSentence(q, w) ==
    /\ isPlaying' = FALSE
    /\ isPaused' = FALSE
    /\ currentParagraphIndex' = 0
    /\ currentSentenceIndex' = currentSentenceIndex
    /\ queue' = <<>>
    /\ waiting' = Cancel(q, w, "stopped")
    /\ pending' = clearReadingPosition(pending)

\* stopReading(), app.js 507-529, with q and w the requests at the backend
stopReading(q, w) ==
    /\ isPlaying' = FALSE
    /\ isPaused' = FALSE
    /\ currentParagraphIndex' = 0
    /\ currentSentenceIndex' = 0
    /\ queue' = <<>>
    /\ waiting' = Cancel(q, w, "stopped")
    /\ pending' = clearReadingPosition(pending)

\* ------------------------------------------------------- speakParagraph
\* window.speechSynthesis.speak(utterance), app.js 428, and
\* callHandler('ttsSpeak', ...), app.js 452: sentence s of paragraph p
Speak(p, s, q, w) ==
    /\ queue' = IF isFlutter THEN q
                ELSE Append(q, [paragraph |-> p, sent |-> s])
    /\ waiting' = IF isFlutter THEN w (+) SetToBag({Utt(p, s, "active")})
                  ELSE w
    /\ lastReq' = Req(p, s)
    /\ mark' = NoMark
    /\ lastStep' = "speak"

\* the paragraph and sentence speakParagraph(index) reaches when narration
\* of the paragraph starts at sentence startSent: a paragraph whose
\* sentences are all behind startSent is left at once (the for loop of
\* speakParagraphFlutter does not run) and the next one starts at 0
RECURSIVE speakTarget(_, _)
speakTarget(index, startSent) ==
    IF index >= Len(paragraphs)
    THEN [res |-> "finished", index |-> index, sent |-> 0]
    ELSE IF startSent >= paragraphs[index + 1].sentences
         THEN speakTarget(index + 1, 0)
         ELSE [res |-> "speak", index |-> index, sent |-> startSent]

\* nothing was shown yet
NoProgress == [P |-> 0, N |-> 0, percent |-> [num |-> 0, den |-> 1]]

\* updateProgress with the index in the place of the number
updateProgressZeroBased(index) ==
    [P |-> index, N |-> Len(paragraphs),
     percent |-> [num |-> index * 100, den |-> Len(paragraphs)]]

\* updateProgress(), app.js 570-576, called with currentParagraphIndex =
\* index: "Reading paragraph P of N" and the percentage, a fraction
updateProgress(index) ==
    [P |-> index + 1, N |-> Len(paragraphs),
     percent |-> [num |-> (index + 1) * 100, den |-> Len(paragraphs)]]

\* speakParagraph(index), app.js 290-319, up to the next await of the chain;
\* updateProgress is called for every paragraph the chain enters (310)
speakParagraph(index, startSent, q, w) ==
    LET t == speakTarget(index, startSent)
    IN  IF index >= Len(paragraphs) \/ (isPlaying /\ ~isPaused /\ t.res = "finished")
        THEN /\ Room(pending)
             /\ stopReading(q, w)
             /\ lastStep' = "other"
             /\ progress' = IF index < Len(paragraphs)
                            THEN updateProgress(Len(paragraphs) - 1)
                            ELSE progress
             /\ UNCHANGED <<lastReq, mark>>
        ELSE IF ~isPlaying \/ isPaused
        THEN /\ queue' = q
             /\ waiting' = w
             /\ lastStep' = "other"
             /\ UNCHANGED <<ctl, pending, lastReq, progress, mark>>
        ELSE /\ currentParagraphIndex' = t.index
             /\ currentSentenceIndex' =
                    IF isFlutter THEN t.sent ELSE currentSentenceIndex
             /\ progress' = updateProgress(t.index)
             /\ Speak(paragraphs[t.index + 1], t.sent, q, w)
             /\ UNCHANGED <<isPlaying, isPaused, pending>>

\* app.js 321-324: "Continue to next paragraph"
Continue(index, startSent, q, w) ==
    IF isPlaying /\ ~isPaused
    THEN speakParagraph(index + 1, startSent, q, w)
    ELSE /\ queue' = q
         /\ waiting' = w
         /\ lastStep' = "other"
         /\ UNCHANGED <<ctl, pending, lastReq, progress, mark>>

\* ---------------------------------------------------------- playDocument
\* playDocument(), app.js 254-288, up to the await of the 100 ms timer;
\* paused is the value of isPaused the function reads
playDocument(paused) ==
    /\ currentParagraphIndex' = IF paused THEN currentParagraphIndex ELSE 0
    /\ currentSentenceIndex' = IF paused THEN currentSentenceIndex ELSE 0
    /\ isPlaying' = TRUE
    /\ isPaused' = FALSE
    /\ queue' = <<>>
    /\ waiting' = IF isFlutter THEN waiting
                  ELSE Cancel(queue, waiting, "cancelled")
    /\ timers' = Append(timers, StartTimerOf)

CanPlay == currentDocument # NoDoc /\ Len(paragraphs) > 0

\* the user presses Play
Play ==
    /\ CanPlay
    /\ HasFree
    /\ playDocument(isPaused)
    /\ mark' = IF isPaused THEN NoMark
               ELSE [cmd |-> "start", want |-> <<currentDocument, 0, 0>>]
    /\ lastReq' = NoReq
    /\ UNCHANGED progress
    /\ afterStop' = FALSE
    /\ lastStep' = "other"
    /\ endSkip' = FALSE
    /\ UNCHANGED <<isFlutter, docv, synthPaused, store, pending>>

\* ----------------------------------------------------- togglePauseResume
\* the sentence being narrated, when exactly one chain is alive and its
\* request is with the backend
Narrating ==
    LET act == BagToSet(ActiveOf(waiting))
    IN  IF isPlaying /\ ~isPaused /\ Live = 1 /\ Outstanding = 1
        THEN IF queue # <<>> THEN Req(queue[1].paragraph, queue[1].sent)
             ELSE LET u == CHOOSE x \in act : TRUE
                  IN  Req(u.paragraph, u.sent)
        ELSE NoReq

\* togglePauseResume(), app.js 470-505
togglePauseResume ==
    /\ IF isPaused
       THEN /\ IF CanPlay
               THEN HasFree /\ playDocument(FALSE)
               ELSE /\ isPaused' = FALSE
                    /\ UNCHANGED <<isPlaying, currentParagraphIndex,
                                   currentSentenceIndex, queue, waiting, timers>>
            /\ synthPaused' = IF isFlutter THEN synthPaused ELSE FALSE
            /\ mark' = IF mark.cmd = "pause"
                       THEN [mark EXCEPT !.cmd = "resume"] ELSE NoMark
            /\ endSkip' = FALSE
            /\ UNCHANGED pending
       ELSE /\ Room(pending)
            /\ isPaused' = TRUE
            /\ waiting' = IF isFlutter THEN Cancel(queue, waiting, "cancelled")
                          ELSE waiting
            /\ synthPaused' = IF ~isFlutter /\ queue # <<>> THEN TRUE
                              ELSE synthPaused
            /\ pending' = saveReadingPosition(pending)
            /\ mark' = IF Narrating # NoReq
                       THEN [cmd |-> "pause", want |-> Narrating]
                       ELSE NoMark
            /\ UNCHANGED <<isPlaying, currentParagraphIndex,
                           currentSentenceIndex, queue, timers, endSkip>>
    /\ afterStop' = FALSE
    /\ lastStep' = "toggle"
    /\ UNCHANGED <<isFlutter, docv, store, lastReq, progress>>

\* ------------------------------------------------------------ stop, skip
\* the user presses Stop
Stop ==
    /\ Room(pending)
    /\ stopReading(queue, waiting)
    /\ mark' = NoMark
    /\ lastReq' = NoReq
    /\ UNCHANGED progress
    /\ afterStop' = (isPlaying \/ afterStop)
    /\ lastStep' = IF lastStep \in {"stop", "stop2"} THEN "stop2" ELSE "stop"
    /\ UNCHANGED <<isFlutter, docv, timers, synthPaused, store, endSkip>>

\* skipParagraph that clamps at the last paragraph as it does at the first,
\* instead of the "Reached end" branch of lines 552-557
skipParagraphClamps(direction) ==
    LET w == Cancel(queue, waiting, "skipped")
        newIndex == currentParagraphIndex + direction
    IN  /\ HasFree
        /\ currentParagraphIndex' =
               IF newIndex >= Len(paragraphs) THEN Len(paragraphs) - 1
               ELSE Max(0, newIndex)
        /\ currentSentenceIndex' = 0
        /\ queue' = <<>>
        /\ waiting' = w
        /\ timers' = Append(timers, StartTimerOf)
        /\ UNCHANGED <<isPlaying, isPaused, pending>>

\* skipParagraph(direction), app.js 532-568, up to the await of the timer
skipParagraph(direction) ==
    LET w == Cancel(queue, waiting, "skipped")
        newIndex == currentParagraphIndex + direction
    IN  IF newIndex >= Len(paragraphs)
        THEN /\ Room(pending)
             /\ stopReading(<<>>, w)
             /\ UNCHANGED timers
        ELSE /\ HasFree
             /\ currentParagraphIndex' = Max(0, newIndex)
             /\ currentSentenceIndex' = 0
             /\ queue' = <<>>
             /\ waiting' = w
             /\ timers' = Append(timers, StartTimerOf)
             /\ UNCHANGED <<isPlaying, isPaused, pending>>

\* the user presses Next (+1) or Previous (-1)
Skip(direction) ==
    /\ isPlaying
    /\ Len(paragraphs) > 0
    /\ skipParagraph(direction)
    /\ LET newIndex == currentParagraphIndex + direction
       IN  /\ endSkip' = (endSkip \/ newIndex >= Len(paragraphs))
           /\ mark' = IF isPaused \/ newIndex >= Len(paragraphs) THEN NoMark
                      ELSE [cmd |-> "skip",
                            want |-> <<paragraphs[Max(0, newIndex) + 1].doc,
                                       Max(0, newIndex), 0>>]
    /\ lastReq' = NoReq
    /\ UNCHANGED progress
    /\ lastStep' = "other"
    /\ UNCHANGED <<isFlutter, docv, synthPaused, store, afterStop>>

\* --------------------------------------------------- callbacks and timers
\* the 100 ms timer of playDocument / skipParagraph:
\* speakParagraph(currentParagraphIndex)
StartTimer ==
    /\ timers # <<>>
    /\ Head(timers).pc = "timer"
    /\ timers' = Tail(timers)
    /\ speakParagraph(currentParagraphIndex,
                      IF isFlutter THEN currentSentenceIndex ELSE 0,
                      queue, waiting)
    /\ UNCHANGED <<isFlutter, docv, synthPaused, store, afterStop, endSkip>>

\* the requests that can report now, each with the backend as it is once
\* the request is gone: the utterance being spoken, or a request that was
\* cancelled (or sent to the Flutter host) and whose callback is due
Reporting ==
    (IF queue # <<>> /\ ~synthPaused
     THEN {[paragraph |-> queue[1].paragraph, sent |-> queue[1].sent,
            q |-> Tail(queue), w |-> waiting]}
     ELSE {})
    \cup {[paragraph |-> u.paragraph, sent |-> u.sent, q |-> queue,
           w |-> waiting (-) SetToBag({u})] : u \in BagToSet(waiting)}

\* utterance.onend, app.js 409-420
UtteranceEnd ==
    /\ ~isFlutter
    /\ \E r \in Reporting :
          /\ queue' = r.q
          /\ waiting' = r.w
          /\ \E k \in TimerSlots(timers, 50) :
                timers' = InsertAt(timers, k,
                            [ms |-> 50, pc |-> "gap", paragraph |-> r.paragraph,
                             sent |-> r.sent + 1])
    /\ lastStep' = "other"
    /\ UNCHANGED <<isFlutter, docv, ctl, synthPaused, store, pending, lastReq,
                   progress,
                   mark, afterStop, endSkip>>

\* utterance.onerror, app.js 422-426, and the rest of speakParagraph
UtteranceError ==
    /\ ~isFlutter
    /\ \E r \in Reporting : Continue(r.paragraph.number - 1, 0, r.q, r.w)
    /\ UNCHANGED <<isFlutter, docv, timers, synthPaused, store, afterStop,
                   endSkip>>

\* the 50 ms timer: speakNextSentence(), app.js 342-356
NextSentenceTimer ==
    /\ ~isFlutter
    /\ timers # <<>>
    /\ Head(timers).pc = "gap"
    /\ timers' = Tail(timers)
    /\ LET t == Head(timers)
       IN  IF t.sent >= t.paragraph.sentences \/ ~isPlaying \/ isPaused
           THEN Continue(t.paragraph.number - 1, 0, queue, waiting)
           ELSE /\ Speak(t.paragraph, t.sent, queue, waiting)
                /\ UNCHANGED <<ctl, pending, progress>>
    /\ UNCHANGED <<isFlutter, docv, synthPaused, store, afterStop, endSkip>>

\* callHandler('ttsSpeak') resolves, with success or not: app.js 452-459
FlutterResult ==
    /\ isFlutter
    /\ \E r \in Reporting :
          /\ waiting' = r.w
          /\ timers' = Append(timers, [ms |-> 100, pc |-> "gap",
                                       paragraph |-> r.paragraph,
                                       sent |-> r.sent])
    /\ lastStep' = "other"
    /\ UNCHANGED <<isFlutter, docv, ctl, queue, synthPaused, store, pending,
                   lastReq, progress, mark, afterStop, endSkip>>

\* callHandler('ttsSpeak') rejects: the catch of app.js 465-467
FlutterThrow ==
    /\ isFlutter
    /\ \E r \in Reporting :
          Continue(r.paragraph.number - 1, currentSentenceIndex, r.q, r.w)
    /\ UNCHANGED <<isFlutter, docv, timers, synthPaused, store, afterStop,
                   endSkip>>

\* the 100 ms timer between two sentences: the next round of the for loop
\* of speakParagraphFlutter, app.js 442-463
FlutterLoopTimer ==
    /\ isFlutter
    /\ timers # <<>>
    /\ Head(timers).pc = "gap"
    /\ timers' = Tail(timers)
    /\ LET t == Head(timers)
           i == t.sent + 1
       IN  IF i < t.paragraph.sentences
           THEN /\ currentSentenceIndex' = i
                /\ UNCHANGED <<isPlaying, isPaused, currentParagraphIndex,
                               pending>>
                /\ IF ~isPlaying \/ isPaused
                   THEN /\ lastStep' = "other"
                        /\ UNCHANGED <<queue, waiting, lastReq, progress, mark>>
                   ELSE /\ Speak(t.paragraph, i, queue, waiting)
                        /\ UNCHANGED progress
           ELSE IF isPlaying /\ ~isPaused
           THEN speakParagraph(t.paragraph.number, 0, queue, waiting)
           ELSE /\ currentSentenceIndex' = 0
                /\ lastStep' = "other"
                /\ UNCHANGED <<isPlaying, isPaused, currentParagraphIndex,
                               pending, queue, waiting, lastReq, progress, mark>>
    /\ UNCHANGED <<isFlutter, docv, synthPaused, store, afterStop, endSkip>>

\* ------------------------------------------------------------- IndexedDB
\* Every storage function first awaits initializeStorage() (an open
\* request, stage "open") and then runs one request in a transaction of its
\* own (stage "tx").  Open requests are served in the order they were made;
\* transactions on the same store run in the order they were created when
\* one of them is readwrite.
Op(kind, d) == [kind |-> kind, stage |-> "open", doc |-> d, val |-> NoPos]

StoreOf(op) == IF op.kind \in {"savePos", "clearPos", "loadPos"}
               THEN "positions" ELSE "documents"

ReadWrite(op) == \/ op.kind \in {"savePos", "clearPos", "saveDoc"}
                 \/ op.kind = "delDoc" /\ op.stage = "tx"

Opening(op) == op.stage \in {"open", "open2"}

\* IndexedDB without its ordering: any request in flight may complete next
CanStepUnordered(i) ==
    i \in 1..Len(pending)

CanStep(i) ==
    IF Opening(pending[i])
    THEN \A j \in 1..(i - 1) : ~Opening(pending[j])
    ELSE \A j \in 1..(i - 1) :
            \/ Opening(pending[j])
            \/ StoreOf(pending[j]) # StoreOf(pending[i])
            \/ ~ReadWrite(pending[j]) /\ ~ReadWrite(pending[i])

\* an id generateId() has never handed out
Fresh(d) ==
    /\ d \notin docStore
    /\ currentDocument # d
    /\ positions[d] = NoPos
    /\ \A i \in 1..Len(pending) : pending[i].doc # d
    /\ \A i \in 1..Len(timers) : timers[i].paragraph.doc # d
    /\ \A i \in 1..Len(queue) : queue[i].paragraph.doc # d
    /\ \A u \in BagToSet(waiting) : u.paragraph.doc # d
    /\ \A i \in 1..Len(paragraphs) : paragraphs[i].doc # d

\* processFile(file), app.js 142-199, for a file that passes the checks:
\* the globals are set before saveDocument is awaited
processFile(d) ==
    /\ Fresh(d)
    /\ Len(pending) < MaxPending
    /\ paragraphs' = DocParagraphs(d)
    /\ currentDocument' = d
    /\ pending' = Append(pending, Op("saveDoc", d))
    /\ mark' = NoMark
    /\ lastStep' = "other"
    /\ UNCHANGED <<isFlutter, ctl, backend, store,
                   lastReq, progress, afterStop, endSkip>>

\* loadDocument(docId), app.js 816-822: the Load button of a listed document
loadDocument(d) ==
    /\ Len(pending) < MaxPending
    /\ pending' = Append(pending, Op("loadDoc", d))
    /\ lastStep' = "other"
    /\ UNCHANGED <<isFlutter, docv, ctl, backend,
                   store, lastReq, progress, mark, afterStop, endSkip>>

\* deleteDocument(docId), app.js 840-848, confirmed by the user
deleteDocument(d) ==
    /\ Len(pending) < MaxPending
    /\ pending' = Append(pending, Op("delDoc", d))
    /\ lastStep' = "other"
    /\ UNCHANGED <<isFlutter, docv, ctl, backend,
                   store, lastReq, progress, mark, afterStop, endSkip>>

\* initializeStorage() resolves for operation i; saveReadingPosition and
\* clearReadingPosition read the globals only now (app.js 871-876, 922)
DbOpen(i) ==
    /\ i \in 1..Len(pending)
    /\ Opening(pending[i])
    /\ CanStep(i)
    /\ LET op == pending[i]
       IN  pending' =
             IF op.kind \in {"savePos", "clearPos"}
             THEN IF currentDocument = NoDoc
                  THEN RemoveAt(pending, i)
                  ELSE [pending EXCEPT ![i] =
                          [kind |-> op.kind, stage |-> "tx",
                           doc |-> currentDocument,
                           val |-> IF op.kind = "savePos"
                                   THEN currentParagraphIndex ELSE NoPos]]
             ELSE [pending EXCEPT ![i].stage =
                          IF op.stage = "open" THEN "tx" ELSE "tx2"]
    /\ lastStep' = "other"
    /\ UNCHANGED <<isFlutter, docv, ctl, backend,
                   store, lastReq, progress, mark, afterStop, endSkip>>

\* operation i is at its request and the request can complete
Ready(i, kind, stage) ==
    /\ i \in 1..Len(pending)
    /\ pending[i].kind = kind
    /\ pending[i].stage = stage
    /\ CanStep(i)

\* request.onsuccess of store.put(position), app.js 881-883
SavePosDone(i) ==
    /\ Ready(i, "savePos", "tx")
    /\ positions' = [positions EXCEPT ![pending[i].doc] = pending[i].val]
    /\ pending' = RemoveAt(pending, i)
    /\ lastStep' = "other"
    /\ UNCHANGED <<isFlutter, docv, ctl, backend, docStore, lastReq, progress, mark,
                   afterStop, endSkip>>

\* request.onsuccess of store.delete(currentDocument.id), app.js 922-924
ClearPosDone(i) ==
    /\ Ready(i, "clearPos", "tx")
    /\ positions' = [positions EXCEPT ![pending[i].doc] = NoPos]
    /\ pending' = RemoveAt(pending, i)
    /\ lastStep' = "other"
    /\ UNCHANGED <<isFlutter, docv, ctl, backend, docStore, lastReq, progress, mark,
                   afterStop, endSkip>>

\* request.onsuccess of loadDocument, app.js 824-835
LoadDocDone(i) ==
    /\ Ready(i, "loadDoc", "tx")
    /\ LET d == pending[i].doc
       IN  IF d \in docStore
           THEN /\ currentDocument' = d
                /\ paragraphs' = DocParagraphs(d)
                /\ pending' = Append(RemoveAt(pending, i), Op("loadPos", d))
                /\ mark' = NoMark
           ELSE /\ pending' = RemoveAt(pending, i)
                /\ UNCHANGED <<docv, mark>>
    /\ lastStep' = "other"
    /\ UNCHANGED <<isFlutter, ctl, backend, store, lastReq, progress, afterStop, endSkip>>

\* request.onsuccess of loadReadingPosition, app.js 896-909; the user
\* answers the confirm dialog
loadReadingPosition(i) ==
    /\ Ready(i, "loadPos", "tx")
    /\ pending' = RemoveAt(pending, i)
    /\ LET position == positions[pending[i].doc]
       IN  IF position # NoPos /\ position < Len(paragraphs)
           THEN \E accept \in BOOLEAN :
                   /\ currentParagraphIndex' = IF accept THEN position ELSE 0
                   /\ isPaused' = (accept \/ isPaused)
                   /\ mark' = NoMark
                   /\ afterStop' = FALSE
                   /\ UNCHANGED <<isPlaying, currentSentenceIndex>>
           ELSE UNCHANGED <<ctl, mark, afterStop>>
    /\ lastStep' = "other"
    /\ UNCHANGED <<isFlutter, docv, backend, store, lastReq, progress, endSkip>>

\* request.onsuccess of store.delete(docId), app.js 848-855; the list is
\* refreshed by loadStoredDocuments (a second open and request)
DeleteDocDone(i) ==
    /\ Ready(i, "delDoc", "tx")
    /\ docStore' = docStore \ {pending[i].doc}
    /\ pending' = Append(RemoveAt(pending, i),
                         [pending[i] EXCEPT !.stage = "open2"])
    /\ lastStep' = "other"
    /\ UNCHANGED <<isFlutter, docv, ctl, backend, positions, lastReq, progress, mark,
                   afterStop, endSkip>>

\* deleteDocument after the refresh, app.js 857-863
DeleteDocRefreshed(i) ==
    /\ Ready(i, "delDoc", "tx2")
    /\ pending' = RemoveAt(pending, i)
    /\ IF currentDocument = pending[i].doc
       THEN /\ currentDocument' = NoDoc
            /\ paragraphs' = <<>>
            /\ mark' = NoMark
       ELSE UNCHANGED <<docv, mark>>
    /\ lastStep' = "other"
    /\ UNCHANGED <<isFlutter, ctl, backend, store, lastReq, progress, afterStop, endSkip>>

\* request.onsuccess / request.onerror of saveDocument, app.js 738-741
SaveDocDone(i) ==
    /\ Ready(i, "saveDoc", "tx")
    /\ pending' = RemoveAt(pending, i)
    /\ \E ok \in BOOLEAN :
          docStore' = IF ok THEN docStore \cup {pending[i].doc} ELSE docStore
    /\ lastStep' = "other"
    /\ UNCHANGED <<isFlutter, docv, ctl, backend, positions, lastReq, progress, mark,
                   afterStop, endSkip>>

\* ------------------------------------------------------------- segmenter
\* A text is a sequence of characters.  The characters of the bounded
\* texts: a letter, two of the punctuation marks of [.!?], and two of the
\* whitespace characters of \s.
Alphabet == {"a", ".", "?", " ", "\n"}

IsSpace(c) == c \in {" ", "\n"}
IsPunct(c) == c \in {".", "!", "?"}

\* String.prototype.trim
RECURSIVE trimStart(_)
trimStart(t) ==
    IF t # <<>> /\ IsSpace(Head(t)) THEN trimStart(Tail(t)) ELSE t

RECURSIVE trimEnd(_)
trimEnd(t) ==
    IF t # <<>> /\ IsSpace(t[Len(t)])
    THEN trimEnd(SubSeq(t, 1, Len(t) - 1)) ELSE t

trim(t) == trimEnd(trimStart(t))

\* /\n\n/ in the place of /\n\s*\n/: a blank line that holds spaces is
\* no boundary
ParaMatchEndStrict(t, i) ==
    IF t[i] = "\n" /\ i < Len(t) /\ t[i + 1] = "\n" THEN i + 1 ELSE 0

\* /\n\s*\n/ matched at position i of t: the position of the last character
\* of the match (\s* is greedy), 0 when there is no match at i
ParaMatchEnd(t, i) ==
    LET K == {k \in (i + 1)..Len(t) :
                 /\ t[k] = "\n"
                 /\ \A m \in (i + 1)..(k - 1) : IsSpace(t[m])}
    IN  IF t[i] # "\n" \/ K = {} THEN 0
        ELSE CHOOSE k \in K : \A j \in K : j <= k

\* /([.!?]+\s+)/ matched at position i of t: the position of the last
\* character of the match, 0 when there is no match at i
SentMatchEnd(t, i) ==
    LET P == {k \in i..Len(t) : \A m \in i..k : IsPunct(t[m])}
        r == CHOOSE k \in P : \A j \in P : j <= k
        W == {k \in (r + 1)..Len(t) : \A m \in (r + 1)..k : IsSpace(t[m])}
    IN  IF P = {} THEN 0
        ELSE IF W = {} THEN 0
        ELSE CHOOSE k \in W : \A j \in W : j <= k

\* text.split(/\n\s*\n/): the piece in progress starts at p, the scan is at q
RECURSIVE splitParas(_, _, _)
splitParas(t, p, q) ==
    IF q > Len(t) THEN <<SubSeq(t, p, Len(t))>>
    ELSE LET e == ParaMatchEnd(t, q)
         IN  IF e = 0 THEN splitParas(t, p, q + 1)
             ELSE <<SubSeq(t, p, q - 1)>> \o splitParas(t, e + 1, e + 1)

\* text.split(/([.!?]+\s+)/): the pieces alternate with the separators
\* the group captures
RECURSIVE splitSents(_, _, _)
splitSents(t, p, q) ==
    IF q > Len(t) THEN <<SubSeq(t, p, Len(t))>>
    ELSE LET e == SentMatchEnd(t, q)
         IN  IF e = 0 THEN splitSents(t, p, q + 1)
             ELSE <<SubSeq(t, p, q - 1), SubSeq(t, q, e)>>
                  \o splitSents(t, e + 1, e + 1)

\* Array.prototype.filter(s => s.length > 0)
RECURSIVE nonEmpty(_)
nonEmpty(a) ==
    IF a = <<>> THEN <<>>
    ELSE IF Head(a) = <<>> THEN nonEmpty(Tail(a))
    ELSE <<Head(a)>> \o nonEmpty(Tail(a))

\* the reducer of splitIntoSentences without the trim of line 227
RECURSIVE reduceUntrimmed(_, _)
reduceUntrimmed(arr, i) ==
    IF i > Len(arr) THEN <<>>
    ELSE IF i % 2 = 1 /\ trim(arr[i]) # <<>>
         THEN <<arr[i] \o (IF i + 1 <= Len(arr) THEN arr[i + 1] ELSE <<>>)>>
              \o reduceUntrimmed(arr, i + 1)
         ELSE reduceUntrimmed(arr, i + 1)

\* the reducer of splitIntoSentences, app.js 223-230, from element i of arr
\* on (i counts from 1: the pieces are the odd elements)
RECURSIVE reduceSentences(_, _)
reduceSentences(arr, i) ==
    IF i > Len(arr) THEN <<>>
    ELSE IF i % 2 = 1 /\ trim(arr[i]) # <<>>
         THEN <<trim(arr[i] \o (IF i + 1 <= Len(arr) THEN arr[i + 1] ELSE <<>>))>>
              \o reduceSentences(arr, i + 1)
         ELSE reduceSentences(arr, i + 1)

\* splitIntoSentences(text), app.js 220-234
splitIntoSentences(t) ==
    LET sentences == nonEmpty(reduceSentences(splitSents(t, 1, 1), 1))
    IN  IF Len(sentences) > 0 THEN sentences ELSE <<t>>

\* paraText.split(/\s+/).length for a trimmed, non-empty paraText
wordCount(t) ==
    1 + Cardinality({i \in 1..(Len(t) - 1) : IsSpace(t[i]) /\ ~IsSpace(t[i + 1])})

\* the map of splitIntoParagraphs, app.js 207-217
RECURSIVE numbered(_, _)
numbered(paraTexts, index) ==
    IF index > Len(paraTexts) THEN <<>>
    ELSE <<[number |-> index,
            text |-> paraTexts[index],
            sentences |-> splitIntoSentences(paraTexts[index]),
            wordCount |-> wordCount(paraTexts[index])]>>
         \o numbered(paraTexts, index + 1)

\* Array.prototype.map(p => p.trim())
trimAll(a) == [i \in 1..Len(a) |-> trim(a[i])]

\* splitIntoParagraphs without the filter of line 205
splitIntoParagraphsUnfiltered(t) ==
    numbered(trimAll(splitParas(t, 1, 1)), 1)

\* splitIntoParagraphs without the trim of line 204
splitIntoParagraphsUntrimmed(t) ==
    numbered(nonEmpty(splitParas(t, 1, 1)), 1)

\* splitIntoParagraphs(text), app.js 201-218
splitIntoParagraphs(t) ==
    numbered(nonEmpty(trimAll(splitParas(t, 1, 1))), 1)

\* the texts of length n
RECURSIVE TextsOf(_)
TextsOf(n) ==
    IF n = 0 THEN {<<>>}
    ELSE {Append(t, c) : t \in TextsOf(n - 1), c \in Alphabet}

\* "Hello world. This is a test! Really?\n\nSecond paragraph here."
Example ==
    <<"H", "e", "l", "l", "o", " ", "w", "o", "r", "l", "d", ".", " ", "T",
      "h", "i", "s", " ", "i", "s", " ", "a", " ", "t", "e", "s", "t", "!",
      " ", "R", "e", "a", "l", "l", "y", "?", "\n", "\n", "S", "e", "c",
      "o", "n", "d", " ", "p", "a", "r", "a", "g", "r", "a", "p", "h", " ",
      "h", "e", "r", "e", ".">>

Texts == UNION {TextsOf(n) : n \in 0..MaxLen} \cup {Example}

NoResult == [done |-> FALSE, paragraphs |-> <<>>]

\* the file is read and segmented (processFile, app.js 171)
Segment ==
    /\ ~result.done
    /\ result' = [done |-> TRUE, paragraphs |-> splitIntoParagraphs(text)]
    /\ UNCHANGED <<offSegmenter, text>>

\* no text is being segmented
NoText ==
    /\ text = <<>>
    /\ result = NoResult

\* ---------------------------------------------------------------- upload
\* The two upload handlers: handleFileUpload of the reader (app.js 100-111,
\* with processFile, 142-199) and handleFileUpload of the file picker
\* (part_000 328-387); both extract with extractTextFromFile of
\* document-extraction.js.  A step is the handler from one await to the next.

\* document-extraction.js 12-14
MAX_PDF_SIZE == 5 * 1024 * 1024
\* a ceiling one byte too high
MAX_DOCX_SIZE_PLUS_ONE == 2 * 1024 * 1024 + 1
MAX_DOCX_SIZE == 2 * 1024 * 1024
MAX_TEXT_LENGTH == 100000

\* file.size: the ceilings, one byte more, and a small file
Sizes ==
    {1024,
     2 * 1024 * 1024, 2 * 1024 * 1024 + 1,
     5 * 1024 * 1024, 5 * 1024 * 1024 + 1,
     10 * 1024 * 1024, 10 * 1024 * 1024 + 1}

\* the length of the text of a file without the whitespace around it
Chars == {0, 9, 10, 99, 100, 100000, 100001}

\* the extension of file.name
Exts == {"pdf", "docx", "txt", "png"}

\* a file: chars and pad are what is in it (pad: the whitespace around the
\* text), corrupt: the parsing library, or the read, fails on it; one
\* content is enough for the files whose content is never seen, and a
\* text file is at least as large as its text
Files ==
    {f \in [ext : Exts, size : Sizes, chars : Chars, pad : {0, 2},
            corrupt : BOOLEAN] :
        /\ f.corrupt \/ f.ext = "png" => f.chars = 0 /\ f.pad = 0
        /\ f.ext = "png" => ~f.corrupt
        /\ f.ext = "txt" => f.size >= f.chars + f.pad}

NoFile == [ext |-> "none", size |-> 0, chars |-> 0, pad |-> 0, corrupt |-> FALSE]

\* file.type, which the browser derives from the extension
MimeOf(ext) ==
    CASE ext = "pdf" -> "application/pdf"
      [] ext = "docx" ->
            "application/vnd.openxmlformats-officedocument.wordprocessingml.document"
      [] ext = "txt" -> "text/plain"
      [] OTHER -> "image/png"

\* a text as far as the checks look at it: its length and the length of
\* text.trim()
RawText(f) ==
    [length |-> IF f.chars = 0 THEN f.pad ELSE f.chars + f.pad, trimmed |-> f.chars]

\* String.prototype.trim on such a text
trimmed(t) == [length |-> t.trimmed, trimmed |-> t.trimmed]

\* validateDocument with the short-text test of line 149 off by one
validateDocumentOffByOne(t) ==
    IF t.length = 0 \/ t.trimmed = 0 THEN [valid |-> FALSE, error |-> "empty"]
    ELSE IF t.length > MAX_TEXT_LENGTH THEN [valid |-> FALSE, error |-> "too large"]
    ELSE IF t.length <= 10 THEN [valid |-> FALSE, error |-> "too short"]
    ELSE [valid |-> TRUE, error |-> "null"]

\* validateDocument(text, filename), document-extraction.js 131-160
validateDocument(t) ==
    IF t.length = 0 \/ t.trimmed = 0 THEN [valid |-> FALSE, error |-> "empty"]
    ELSE IF t.length > MAX_TEXT_LENGTH THEN [valid |-> FALSE, error |-> "too large"]
    ELSE IF t.length < 10 THEN [valid |-> FALSE, error |-> "too short"]
    ELSE [valid |-> TRUE, error |-> "null"]

Untouched == [read |-> FALSE, parsed |-> FALSE, validated |-> FALSE, returned |-> FALSE]

\* no upload is in progress
NoUpload ==
    /\ route = "none"
    /\ batch = 0
    /\ fileIndex = 0
    /\ file = NoFile
    /\ pc = "idle"
    /\ touched = Untouched
    /\ verdict = "none"
    /\ outcomes = <<>>
    /\ uploaded = <<>>
    /\ readerDocument = 0

\* the handler is done with the file: processFile returns, or the loop of
\* the file picker reaches continue or the end of its body
Ended(v) ==
    /\ verdict' = v
    /\ outcomes' = Append(outcomes, v)
    /\ pc' = "loop"
    /\ UNCHANGED readerDocument

\* the loop stops at the first file that fails
continuesUntilFailure(v) == v = "stored"

\* after a file that ended with v the loop goes on with the next file:
\* processFile returns to the loop whatever happened (app.js 148-149,
\* 154-155, 166-167, 195-198), the file picker continues or catches inside
\* the loop (part_000 347, 354, 364, 376-379)
continues(v) == TRUE

\* the checks a handler makes before it calls extractTextFromFile:
\* "none" when the file passes
\* reader: processFile, app.js 146-156
\* file picker: part_000 337-355
Precheck(r, f) ==
    IF r = "reader"
    THEN IF f.ext \notin {"pdf", "docx", "txt"} THEN "type"
         ELSE IF f.size > 10 * 1024 * 1024 THEN "size"
         ELSE "none"
    ELSE LET validTypes ==
                 {"application/pdf",
                  "application/vnd.openxmlformats-officedocument.wordprocessingml.document",
                  "text/plain"}
             isValidType == MimeOf(f.ext) \in validTypes \/ f.ext = "txt"
             maxSize == IF MimeOf(f.ext) = "application/pdf"
                        THEN 5 * 1024 * 1024 ELSE 2 * 1024 * 1024
         IN  IF ~isValidType THEN "type"
             ELSE IF f.size > maxSize THEN "size"
             ELSE "none"

\* extractTextFromFile up to its first await, document-extraction.js
\* 167-184 with 21-38, 72-87 and 110-114: "none" when the content of the
\* file is being read
Dispatch(f) ==
    IF f.ext = "pdf" THEN IF f.size > MAX_PDF_SIZE THEN "size" ELSE "none"
    ELSE IF f.ext = "docx" THEN IF f.size > MAX_DOCX_SIZE THEN "size" ELSE "none"
    ELSE IF f.ext = "txt" THEN "none"
    ELSE "type"

\* the loop takes the next file and runs up to the first await
TakeFile(f) ==
    /\ pc = "loop"
    /\ fileIndex < batch
    /\ fileIndex > 0 => continues(verdict)
    /\ fileIndex' = fileIndex + 1
    /\ file' = f
    /\ LET v == IF Precheck(route, f) # "none" THEN Precheck(route, f)
                ELSE Dispatch(f)
       IN  IF v # "none"
           THEN /\ touched' = Untouched
                /\ Ended(v)
           ELSE /\ touched' = [Untouched EXCEPT !.read = TRUE]
                /\ verdict' = "none"
                /\ pc' = "reading"
                /\ UNCHANGED <<outcomes, readerDocument>>
    /\ UNCHANGED <<route, batch, uploaded>>

\* the change event of the file input: handleFileUpload, app.js 100-111 and
\* part_000 328-332, with n files selected
handleFileUpload(r, n, f) ==
    /\ pc = "idle"
    /\ route' = r
    /\ batch' = n
    /\ fileIndex' = 1
    /\ file' = f
    /\ LET v == IF Precheck(r, f) # "none" THEN Precheck(r, f) ELSE Dispatch(f)
       IN  IF v # "none"
           THEN /\ touched' = Untouched
                /\ Ended(v)
           ELSE /\ touched' = [Untouched EXCEPT !.read = TRUE]
                /\ verdict' = "none"
                /\ pc' = "reading"
                /\ UNCHANGED <<outcomes, readerDocument>>
    /\ UNCHANGED uploaded

\* what the handler does with the text extractTextFromFile returned
\* reader: app.js 162-189, paragraphs and currentDocument are assigned
\* (171, 178) and saveDocument is awaited
\* file picker: part_000 360-372, addDocument is awaited
Returned(t) ==
    /\ touched' = [touched EXCEPT !.validated = TRUE, !.returned = TRUE]
    /\ IF route = "reader"
       THEN IF t.length = 0 \/ t.trimmed < 100
            THEN Ended("short")
            ELSE /\ pc' = "saving"
                 /\ readerDocument' = fileIndex
                 /\ UNCHANGED <<verdict, outcomes>>
       ELSE IF t.length = 0 \/ t.trimmed = 0
            THEN Ended("empty")
            ELSE /\ pc' = "saving"
                 /\ UNCHANGED <<verdict, outcomes, readerDocument>>

\* extractTextFromFile from the trimmed text on, document-extraction.js
\* 186-197: a text that fails the validation is thrown, not returned
Validate(t) ==
    IF validateDocument(t).valid
    THEN Returned(t)
    ELSE /\ touched' = [touched EXCEPT !.validated = TRUE]
         /\ Ended("invalid")

\* fileBlob.arrayBuffer() or fileBlob.text() settles:
\* a pdf or docx goes to its library (document-extraction.js 41, 90),
\* the text of a txt is trimmed and validated (114-117, 186-192)
ContentRead ==
    /\ pc = "reading"
    /\ IF file.ext = "txt"
       THEN IF file.corrupt
            THEN /\ Ended("extract")
                 /\ UNCHANGED touched
            ELSE Validate(trimmed(RawText(file)))
       ELSE /\ touched' = [touched EXCEPT !.parsed = TRUE]
            /\ pc' = "parsing"
            /\ UNCHANGED <<verdict, outcomes, readerDocument>>
    /\ UNCHANGED <<route, batch, fileIndex, file, uploaded>>

\* pdf.js or mammoth is done (document-extraction.js 41-59, 90-97), or
\* throws (61-64, 99-102)
LibraryDone ==
    /\ pc = "parsing"
    /\ IF file.corrupt
       THEN /\ Ended("extract")
            /\ UNCHANGED touched
       ELSE Validate(trimmed(RawText(file)))
    /\ UNCHANGED <<route, batch, fileIndex, file, uploaded>>

\* the request of saveDocument (app.js 733-743) or of addDocument
\* (app.js 2129-2156) succeeds
StoreDone ==
    /\ pc = "saving"
    /\ uploaded' = Append(uploaded, [file |-> fileIndex, length |-> file.chars])
    /\ Ended("stored")
    /\ UNCHANGED <<route, batch, fileIndex, file, touched>>

\* the request fails, the promise rejects: app.js 195-198, part_000 376-379
StoreFailed ==
    /\ pc = "saving"
    /\ Ended("store")
    /\ UNCHANGED <<route, batch, fileIndex, file, touched, uploaded>>

\* the loop is over: handleFileUpload returns (app.js 111; the file picker
\* clears the input and refreshes its list, part_000 382-386)
UploadDone ==
    /\ pc = "loop"
    /\ fileIndex = batch \/ ~continues(verdict)
    /\ pc' = "done"
    /\ UNCHANGED <<route, batch, fileIndex, file, touched, verdict, outcomes,
                   uploaded, readerDocument>>

\* --------------------------------------------------------- storage layer
\* The IndexedDB layer of app.js 981-2540 (documents, summaries, chat
\* history).  A call is an async function that was called and has not yet
\* been forgotten; a step is the completion of one transaction with the
\* callbacks of its requests.  Transactions whose scopes overlap run in the
\* order of their creation unless both only read.

\* number of calls of the storage layer in a run
MaxCalls == 3

DocIds == {1}
ConversationIds == {1, 2}

\* the calls: no call was made
NoCalls ==
    /\ documents = {}
    /\ summaries = {}
    /\ chatHistory = {}
    /\ calls = <<>>
    /\ created = 0

\* the store and the mode of the transaction a call waits for
TxOf(stage) ==
    CASE stage = "getDocument" -> [store |-> "documents", mode |-> "readonly"]
      [] stage = "deleteDocument" -> [store |-> "documents", mode |-> "readwrite"]
      [] stage = "getSummaries" -> [store |-> "summaries", mode |-> "readonly"]
      [] stage = "add" -> [store |-> "summaries", mode |-> "readwrite"]
      [] stage = "deleteSummaries" -> [store |-> "summaries", mode |-> "readwrite"]
      [] stage = "scan" -> [store |-> "chatHistory", mode |-> "readwrite"]
      [] stage = "deleteMessages" -> [store |-> "chatHistory", mode |-> "readwrite"]
      [] OTHER -> [store |-> "none", mode |-> "none"]

\* the call waits for a transaction
Waits(c) == c.outcome = "pending" /\ TxOf(c.stage).store # "none"

\* the transaction of call i can complete: no transaction created before
\* it on the same store is still to complete, unless both only read
CanRun(i) ==
    /\ i \in 1..Len(calls)
    /\ Waits(calls[i])
    /\ \A j \in 1..Len(calls) :
          /\ j # i
          /\ Waits(calls[j])
          /\ TxOf(calls[j].stage).store = TxOf(calls[i].stage).store
          /\ "readwrite" \in {TxOf(calls[j].stage).mode, TxOf(calls[i].stage).mode}
          => calls[i].tx < calls[j].tx

Call(op, arg, stage) ==
    [op |-> op, arg |-> arg, stage |-> stage, tx |-> created + 1, list |-> {},
     failed |-> FALSE, outcome |-> "pending"]

\* the promise of call i settles
Settles(c, outcome, failed) ==
    [c EXCEPT !.stage = "over", !.outcome = outcome, !.failed = failed]

\* call i goes on with a new transaction
Goes(c, stage, list) ==
    [c EXCEPT !.stage = stage, !.tx = created + 1, !.list = list]

\* addSummary(documentId, ...), app.js 2274-2280: getDocument is awaited
addSummary(d) ==
    /\ Len(calls) < MaxCalls
    /\ calls' = Append(calls, Call("addSummary", d, "getDocument"))
    /\ created' = created + 1
    /\ UNCHANGED <<documents, summaries, chatHistory>>

\* deleteDocument(id) of the storage layer, app.js 2210-2216, with
\* deleteSummariesByDocument, 2458-2463: getSummariesByDocument is awaited
deleteDocumentCascade(d) ==
    /\ Len(calls) < MaxCalls
    /\ calls' = Append(calls, Call("deleteDocument", d, "getSummaries"))
    /\ created' = created + 1
    /\ UNCHANGED <<documents, summaries, chatHistory>>

\* deleteChatConversation(conversationId), app.js 1307-1333: the cursor is
\* opened
deleteChatConversation(c) ==
    /\ Len(calls) < MaxCalls
    /\ calls' = Append(calls, Call("deleteChatConversation", c, "scan"))
    /\ created' = created + 1
    /\ UNCHANGED <<documents, summaries, chatHistory>>

\* getDocument settles in addSummary, app.js 2280-2301 (with 2186-2204):
\* the request failed, the document is not there, or the summaries
\* transaction is created and the add requested
GetDocumentDone(i, ok) ==
    /\ CanRun(i)
    /\ calls[i].stage = "getDocument"
    /\ IF ~ok
       THEN /\ calls' = [calls EXCEPT ![i] = Settles(@, "rejected", TRUE)]
            /\ UNCHANGED created
       ELSE IF calls[i].arg \notin documents
       THEN /\ calls' = [calls EXCEPT ![i] = Settles(@, "rejected", FALSE)]
            /\ UNCHANGED created
       ELSE /\ calls' = [calls EXCEPT ![i] = Goes(@, "add", {})]
            /\ created' = created + 1
    /\ UNCHANGED <<documents, summaries, chatHistory>>

\* the add request of addSummary settles, app.js 2303-2311; the key of the
\* new summary is generated
AddDone(i, ok) ==
    /\ CanRun(i)
    /\ calls[i].stage = "add"
    /\ IF ok
       THEN /\ summaries' = summaries \cup
                               {[id |-> created + 1, documentId |-> calls[i].arg]}
            /\ created' = created + 1
            /\ calls' = [calls EXCEPT ![i] = Settles(@, "resolved", FALSE)]
       ELSE /\ calls' = [calls EXCEPT ![i] = Settles(@, "rejected", TRUE)]
            /\ UNCHANGED <<summaries, created>>
    /\ UNCHANGED <<documents, chatHistory>>

\* getSummariesByDocument settles in deleteSummariesByDocument,
\* app.js 2463-2483 (with 2346-2364): without summaries the promise
\* resolves and deleteDocument goes on (2216-2221), with summaries a delete
\* is requested for each
GetSummariesDone(i, ok) ==
    /\ CanRun(i)
    /\ calls[i].stage = "getSummaries"
    /\ LET found == {m.id : m \in {n \in summaries : n.documentId = calls[i].arg}}
       IN  IF ~ok
           THEN /\ calls' = [calls EXCEPT ![i] = Settles(@, "rejected", TRUE)]
                /\ UNCHANGED created
           ELSE /\ calls' = [calls EXCEPT ![i] =
                                Goes(@, IF found = {} THEN "deleteDocument"
                                        ELSE "deleteSummaries", found)]
                /\ created' = created + 1
    /\ UNCHANGED <<documents, summaries, chatHistory>>

\* the delete requests of deleteSummariesByDocument settle, app.js
\* 2474-2483: when all succeed the promise resolves and deleteDocument goes
\* on (2216-2221); when one fails the transaction is aborted, there is no
\* onerror and the count is never reached
DeleteSummariesDone(i, ok) ==
    /\ CanRun(i)
    /\ calls[i].stage = "deleteSummaries"
    /\ IF ok
       THEN /\ summaries' = {m \in summaries : m.id \notin calls[i].list}
            /\ calls' = [calls EXCEPT ![i] = Goes(@, "deleteDocument", @.list)]
            /\ created' = created + 1
       ELSE /\ calls' = [calls EXCEPT ![i] = [@ EXCEPT !.stage = "never",
                                                      !.failed = TRUE]]
            /\ UNCHANGED <<summaries, created>>
    /\ UNCHANGED <<documents, chatHistory>>

\* the delete request of deleteDocument settles, app.js 2219-2232
DocumentDeleted(i, ok) ==
    /\ CanRun(i)
    /\ calls[i].stage = "deleteDocument"
    /\ IF ok
       THEN /\ documents' = documents \ {calls[i].arg}
            /\ calls' = [calls EXCEPT ![i] = Settles(@, "resolved", FALSE)]
       ELSE /\ calls' = [calls EXCEPT ![i] = Settles(@, "rejected", TRUE)]
            /\ UNCHANGED documents
    /\ UNCHANGED <<summaries, chatHistory, created>>

\* the cursor of deleteChatConversation is through, app.js 1333-1353 and
\* deleteMessages 1387-1396: the scan failed, there is nothing to delete,
\* or a delete is requested for each message in the same transaction
ScanDone(i, ok) ==
    /\ CanRun(i)
    /\ calls[i].stage = "scan"
    /\ LET found == {m.id : m \in {n \in chatHistory : n.conversationId = calls[i].arg}}
       IN  IF ~ok
           THEN calls' = [calls EXCEPT ![i] = Settles(@, "rejected", TRUE)]
           ELSE IF found = {}
           THEN calls' = [calls EXCEPT ![i] = Settles(@, "resolved", FALSE)]
           ELSE calls' = [calls EXCEPT ![i] = [@ EXCEPT !.stage = "deleteMessages",
                                                       !.list = found]]
    /\ UNCHANGED <<documents, summaries, chatHistory, created>>

\* the delete requests of deleteMessages settle, app.js 1397-1414: onerror
\* counts like onsuccess, the promise resolves; a failed request aborts the
\* transaction
DeleteMessagesDone(i, ok) ==
    /\ CanRun(i)
    /\ calls[i].stage = "deleteMessages"
    /\ chatHistory' = IF ok THEN {m \in chatHistory : m.id \notin calls[i].list}
                      ELSE chatHistory
    /\ calls' = [calls EXCEPT ![i] = Settles(@, "resolved", ~ok)]
    /\ UNCHANGED <<documents, summaries, created>>

\* ------------------------------------------------------- voice selection
\* sentences of a paragraph in the voice model, and voices of the browser
MaxSentences == 2
MaxVoices == 3

\* language tags as strings of characters: what detectLanguage returns
\* (app.js 22-53) and the locales of the voices of the browser
nlNL == <<"n", "l", "-", "N", "L">>
nlBE == <<"n", "l", "-", "B", "E">>
enUS == <<"e", "n", "-", "U", "S">>
frFR == <<"f", "r", "-", "F", "R">>
Languages == {nlNL, enUS, frFR}

\* a document stored without a language has language undefined
Undefined == <<>>

\* s.substring(0, 2) and s.startsWith(prefix)
substring02(l) == SubSeq(l, 1, IF Len(l) < 2 THEN Len(l) ELSE 2)
startsWith(l, prefix) ==
    /\ Len(prefix) <= Len(l)
    /\ SubSeq(l, 1, Len(prefix)) = prefix

\* SpeechSynthesisVoice objects: name and lang
Ellen == [name |-> "Ellen", lang |-> nlBE]
Xander == [name |-> "Xander", lang |-> nlNL]
Samantha == [name |-> "Samantha", lang |-> enUS]
NoVoice == "none"

\* what getVoices() may return: nothing yet, one voice, all voices in
\* two orders, or the list after a voice was removed
VoiceLists ==
    {<<>>, <<Samantha>>, <<Ellen, Xander, Samantha>>,
     <<Samantha, Xander, Ellen>>, <<Xander, Samantha>>}

\* the keys readtome_voice_<code> of localStorage
Codes == {substring02(l) : l \in Languages \cup {nlBE}}
NoPreference == [c \in Codes |-> NoVoice]

\* voices.find(v => v.name === name), app.js 373: the first voice of
\* that name, from voice i on, or none
RECURSIVE findByName(_, _, _)
findByName(voices, name, i) ==
    IF i > Len(voices) THEN NoVoice
    ELSE IF voices[i].name = name THEN voices[i].name
    ELSE findByName(voices, name, i + 1)

\* voices.find(v => v.lang.startsWith(langCode)), app.js 380 and 388
RECURSIVE findByLang(_, _, _)
findByLang(voices, langCode, i) ==
    IF i > Len(voices) THEN NoVoice
    ELSE IF startsWith(voices[i].lang, langCode) THEN voices[i].name
    ELSE findByLang(voices, langCode, i + 1)

\* the value of utterance.voice that speakNextSentence sets for the
\* language of the paragraph, app.js 365-395; NoVoice is the default
chooseVoice(language, voices, saved) ==
    LET langCode == substring02(language)
        savedVoiceName == saved[langCode]
        savedVoiceFound == findByName(voices, savedVoiceName, 1)
    IN  IF savedVoiceName # NoVoice
        THEN IF savedVoiceFound # NoVoice
             THEN savedVoiceFound
             ELSE findByLang(voices, langCode, 1)
        ELSE findByLang(voices, langCode, 1)

\* currentDocument?.language || 'en-US', app.js 334
languageOf(l) == IF l = Undefined THEN enUS ELSE l

NoParagraph ==
    [language |-> Undefined, sentencesSpoken |-> 0, totalSentences |-> 0,
     isSpeaking |-> FALSE]
NoUtterance == [lang |-> Undefined, voice |-> NoVoice]

\* loadVoices(), app.js 580-630, on DOMContentLoaded (line 87): the select
\* lists the voices there are; no voices yet, and it is left as it was.
\* Nothing writes the key 'readtome_voice' that line 625 reads
loadVoices ==
    /\ options = voiceList
    /\ ttsVoice = "null"

\* nothing is narrated and no voice was ever chosen
NoVoices ==
    /\ voiceList = <<>>
    /\ loadVoices
    /\ savedVoice = NoPreference
    /\ documentLanguage = Undefined
    /\ speaking = NoParagraph
    /\ utterance = NoUtterance

\* the browser changes what getVoices() returns
VoicesChanged(l) ==
    /\ l # voiceList
    /\ voiceList' = l
    /\ UNCHANGED <<options, savedVoice, ttsVoice, documentLanguage,
                   speaking, utterance>>

\* updateVoice(), app.js 632-647: option k of the select, 0 for 'Default
\* Voice'; the index is looked up in the list of now, and when it is past
\* its end selectedVoice.lang throws after ttsSettings.voice was set
updateVoice(k) ==
    /\ k \in 0..Len(options)
    /\ IF k = 0
       THEN ttsVoice' = "null" /\ UNCHANGED savedVoice
       ELSE IF k > Len(voiceList)
            THEN ttsVoice' = "undefined" /\ UNCHANGED savedVoice
            ELSE LET selectedVoice == voiceList[k]
                     langCode == substring02(selectedVoice.lang)
                 IN  /\ ttsVoice' = selectedVoice.name
                     /\ savedVoice' =
                            [savedVoice EXCEPT ![langCode] = selectedVoice.name]
    /\ UNCHANGED <<voiceList, options, documentLanguage, speaking, utterance>>

\* currentDocument = doc, app.js 827 (loadDocument) and 178 (processFile):
\* a document in language l becomes the current one; playback goes on
DocumentLoaded(l) ==
    /\ l # documentLanguage
    /\ documentLanguage' = l
    /\ UNCHANGED <<voiceList, options, savedVoice, ttsVoice, speaking,
                   utterance>>

\* speakNextSentence(), app.js 342-428, of the paragraph p; interrupted
\* stands for !isPlaying || isPaused
speakNextSentenceOf(p, interrupted) ==
    IF p.sentencesSpoken >= p.totalSentences \/ interrupted
    THEN speaking' = NoParagraph /\ UNCHANGED utterance
    ELSE IF p.isSpeaking
         THEN speaking' = p /\ UNCHANGED utterance
         ELSE /\ speaking' = [p EXCEPT !.isSpeaking = TRUE]
              /\ utterance' =
                     [lang |-> p.language,
                      voice |-> chooseVoice(p.language, voiceList, savedVoice)]

\* speakParagraphBrowser(paragraph), app.js 327-433, for a paragraph of n
\* sentences: the language is read once, and the first sentence is spoken
speakParagraphBrowser(n) ==
    /\ speaking = NoParagraph
    /\ speakNextSentenceOf([language |-> languageOf(documentLanguage),
                            sentencesSpoken |-> 0, totalSentences |-> n,
                            isSpeaking |-> FALSE], FALSE)
    /\ UNCHANGED <<voiceList, options, savedVoice, ttsVoice, documentLanguage>>

\* utterance.onend, app.js 409-420, up to the 50 ms timer
onend ==
    /\ speaking.isSpeaking
    /\ speaking' = [speaking EXCEPT !.isSpeaking = FALSE,
                                    !.sentencesSpoken = @ + 1]
    /\ UNCHANGED <<voiceList, options, savedVoice, ttsVoice, documentLanguage,
                   utterance>>

\* utterance.onerror, app.js 422-426
onerror ==
    /\ speaking.isSpeaking
    /\ speaking' = NoParagraph
    /\ UNCHANGED <<voiceList, options, savedVoice, ttsVoice, documentLanguage,
                   utterance>>

\* the 50 ms timer of onend: speakNextSentence(), app.js 419
speakNextSentence(interrupted) ==
    /\ speaking # NoParagraph
    /\ ~speaking.isSpeaking
    /\ speakNextSentenceOf(speaking, interrupted)
    /\ UNCHANGED <<voiceList, options, savedVoice, ttsVoice, documentLanguage>>

\* ---------------------------------------------------------- attachments
\* the document ids the attachment calls are made with
MaxAttach == 4
AttachIds == 1..MaxAttach

\* localStorage.getItem(ATTACHMENT_STORAGE_KEY) when the key is not there
NoItem == [present |-> FALSE, json |-> <<>>]

\* JSON.stringify and JSON.parse of an array of numbers: the text and the
\* array determine each other, the model keeps the array as the text
stringify(ids) == [present |-> TRUE, json |-> ids]
parse(stored) == stored.json

\* getAttachedDocumentIds(), app.js 2550-2558
getAttachedDocumentIds(stored) == IF stored = NoItem THEN <<>> ELSE parse(stored)

\* attachedIds.includes(documentId)
includes(ids, documentId) == \E i \in 1..Len(ids) : ids[i] = documentId

\* attachDocument without the test of line 2588
attachDocumentAgain(stored, documentId) ==
    stringify(Append(getAttachedDocumentIds(stored), documentId))

\* attachDocument(documentId), app.js 2585-2596: the item afterwards
attachDocument(stored, documentId) ==
    LET attachedIds == getAttachedDocumentIds(stored)
    IN  IF ~includes(attachedIds, documentId)
        THEN stringify(Append(attachedIds, documentId))
        ELSE stored

\* removeAttachedDocument(documentId), app.js 2602-2611
removeAttachedDocument(stored, documentId) ==
    LET attachedIds == getAttachedDocumentIds(stored)
        keep(id) == id # documentId
    IN  stringify(SelectSeq(attachedIds, keep))

\* clearAttachedDocuments(), app.js 2616-2623
clearAttachedDocuments(stored) == NoItem

\* toggleDocumentAttachment(documentId), app.js 2630-2641: the item
\* afterwards and the value returned
toggleDocumentAttachment(stored, documentId) ==
    LET isAttached == includes(getAttachedDocumentIds(stored), documentId)
    IN  IF isAttached
        THEN [item |-> removeAttachedDocument(stored, documentId),
              returns |-> FALSE]
        ELSE [item |-> attachDocument(stored, documentId), returns |-> TRUE]

NoCall == [op |-> "none", id |-> 0, before |-> NoItem]

\* nothing was ever attached
NoAttachments ==
    /\ attached = NoItem
    /\ lastCall = NoCall

\* the calls of the attachment API
Attach(d) ==
    /\ attached' = attachDocument(attached, d)
    /\ lastCall' = [op |-> "attach", id |-> d, before |-> attached]
Remove(d) ==
    /\ attached' = removeAttachedDocument(attached, d)
    /\ lastCall' = [op |-> "remove", id |-> d, before |-> attached]
Clear ==
    /\ attached' = clearAttachedDocuments(attached)
    /\ lastCall' = [op |-> "clear", id |-> 0, before |-> attached]
Toggle(d) ==
    /\ attached' = toggleDocumentAttachment(attached, d).item
    /\ lastCall' = [op |-> "toggle", id |-> d, before |-> attached]

\* ----------------------------------------------------------- file picker
\* the documents of the file picker
MaxSelect == 3
FileIds == 1..MaxSelect

\* no deletion is going on and none was made
NoDeletion == [pc |-> "idle", at |-> 0, deleted |-> {}, detached |-> {}]
NoSelection ==
    /\ selectedForDeletionIds = <<>>
    /\ deletion = NoDeletion

\* the handlers of the file picker run when no other one is running
PickerIdle == deletion.pc # "deleting"

\* toggleFileSelection(fileId), part_000 273-280
toggleFileSelection(fileId) ==
    /\ PickerIdle
    /\ LET other(id) == id # fileId
       IN  selectedForDeletionIds' =
               IF includes(selectedForDeletionIds, fileId)
               THEN SelectSeq(selectedForDeletionIds, other)
               ELSE Append(selectedForDeletionIds, fileId)
    /\ deletion' = NoDeletion
    /\ UNCHANGED <<attached, documents>>

\* the loop of attachSelectedFiles, part_000 298-302, from file i on
RECURSIVE attachAll(_, _, _)
attachAll(stored, ids, i) ==
    IF i > Len(ids) THEN stored
    ELSE attachAll(attachDocument(stored, ids[i]), ids, i + 1)

\* attachSelectedFiles(), part_000 285-311
attachSelectedFiles ==
    /\ PickerIdle
    /\ selectedForDeletionIds # <<>>
    /\ attached' = attachAll(attached, selectedForDeletionIds, 1)
    /\ selectedForDeletionIds' = <<>>
    /\ deletion' = NoDeletion
    /\ UNCHANGED documents

\* the body of the loop of deleteSelectedFiles for file number i, up to the
\* await: part_000 406-411
deleteNext(i, deleted, detached) ==
    LET fileId == selectedForDeletionIds[i]
    IN  /\ attached' = removeAttachedDocument(attached, fileId)
        /\ deletion' =
               [pc |-> "deleting", at |-> i, deleted |-> deleted,
                detached |-> IF includes(getAttachedDocumentIds(attached), fileId)
                             THEN detached \cup {fileId} ELSE detached]

\* deleteSelectedFiles(), part_000 394-411, confirmed by the user
deleteSelectedFiles ==
    /\ PickerIdle
    /\ selectedForDeletionIds # <<>>
    /\ deleteNext(1, {}, {})
    /\ UNCHANGED <<selectedForDeletionIds, documents>>

\* window.deleteDocument(fileId) resolves (app.js 2210-2236): the loop
\* goes on, or the selection is cleared and the list refreshed,
\* part_000 406-417
DeleteResolved ==
    /\ deletion.pc = "deleting"
    /\ LET fileId == selectedForDeletionIds[deletion.at]
           deleted == deletion.deleted \cup {fileId}
       IN  /\ documents' = documents \ {fileId}
           /\ IF deletion.at < Len(selectedForDeletionIds)
              THEN /\ deleteNext(deletion.at + 1, deleted, deletion.detached)
                   /\ UNCHANGED selectedForDeletionIds
              ELSE /\ selectedForDeletionIds' = <<>>
                   /\ deletion' = [deletion EXCEPT !.pc = "finished",
                                                   !.deleted = deleted]
                   /\ UNCHANGED attached

\* window.deleteDocument(fileId) rejects: the catch of part_000 418-421
DeleteRejected ==
    /\ deletion.pc = "deleting"
    /\ deletion' = [deletion EXCEPT !.pc = "failed"]
    /\ UNCHANGED <<selectedForDeletionIds, attached, documents>>

\* ---------------------------------------------------------- chat history
\* the clock runs up to MaxClock, getChatHistory is called with limits up
\* to MaxLimit
MaxClock == 3
MaxLimit == 3

\* message.role, and message.conversationId: 0 for undefined, or the id of
\* a conversation, which is no key of a message
Roles == {"user", "assistant", "search_query", "search_results"}
Conversations == {0, MaxClock + 1}

NoReply == [op |-> "none", result |-> <<>>, arg |-> 0, before |-> {}]
NoChat ==
    /\ now = 0
    /\ reply = NoReply

\* saveChatMessage(message), app.js 1206-1238: the key is Date.now(), the
\* timestamp a second Date.now(), later by skew, and objectStore.add fails
\* when the store has a record of that key;
\* enhanced: the content starts with "[LIVE WEB SEARCH COMPLETED]"
saveChatMessage(role, conversationId, enhanced, skew) ==
    LET messageWithId ==
            [id |-> now, timestamp |-> now + skew, role |-> role,
             conversationId |-> conversationId, enhanced |-> enhanced]
    IN  /\ now + skew <= MaxClock
        /\ now' = now + skew
        /\ IF \E m \in chatHistory : m.id = messageWithId.id
           THEN /\ reply' = [op |-> "save", result |-> <<"rejected">>,
                             arg |-> messageWithId.id, before |-> chatHistory]
                /\ UNCHANGED chatHistory
           ELSE /\ chatHistory' = chatHistory \cup {messageWithId}
                /\ reply' = [op |-> "save",
                             result |-> <<"resolved", messageWithId.id>>,
                             arg |-> messageWithId.id, before |-> chatHistory]

\* a millisecond passes
Tick ==
    /\ now < MaxClock
    /\ now' = now + 1
    /\ UNCHANGED <<chatHistory, reply>>

\* the record the cursor of the index 'timestamp' in direction 'prev' is
\* at first: the greatest timestamp, and of those the greatest key
last(S) ==
    CHOOSE m \in S : \A n \in S :
        \/ n.timestamp < m.timestamp
        \/ n.timestamp = m.timestamp /\ n.id <= m.id

\* the cursor loop of getChatHistory with the test count <= limit
RECURSIVE cursorOneMore(_, _, _)
cursorOneMore(S, count, limit) ==
    IF S # {} /\ count <= limit
    THEN <<last(S)>> \o cursorOneMore(S \ {last(S)}, count + 1, limit)
    ELSE <<>>

\* the cursor loop of getChatHistory, app.js 1254-1264
RECURSIVE cursor(_, _, _)
cursor(S, count, limit) ==
    IF S # {} /\ count < limit
    THEN <<last(S)>> \o cursor(S \ {last(S)}, count + 1, limit)
    ELSE <<>>

\* getChatHistory(limit), app.js 1240-1275
getChatHistory(limit) ==
    /\ reply' = [op |-> "history", result |-> cursor(chatHistory, 0, limit),
                 arg |-> limit, before |-> chatHistory]
    /\ UNCHANGED <<chatHistory, now>>

\* msg.conversationId || msg.id, app.js 1458
convIdOf(msg) == IF msg.conversationId # 0 THEN msg.conversationId ELSE msg.id

\* the messages cleanupOrphanedWebsearchMessages pushes to orphanedIds for
\* one conversation, app.js 1470-1490: all of a conversation of search
\* messages only, and the enhanced user messages
orphanedOf(messages) ==
    LET hasUserOrAssistant ==
            \E m \in messages : m.role = "user" \/ m.role = "assistant"
        hasWebsearchOnly ==
            \A m \in messages : m.role = "search_query" \/ m.role = "search_results"
        enhancedUserMsgs == {m \in messages : m.role = "user" /\ m.enhanced}
    IN  [metadata |-> IF ~hasUserOrAssistant /\ hasWebsearchOnly
                      THEN messages ELSE {},
         enhanced |-> enhancedUserMsgs]

conversationMap(allMessages) ==
    [c \in {convIdOf(m) : m \in allMessages} |->
        {m \in allMessages : convIdOf(m) = c}]

\* orphanedIds, as the set of ids and as the number of pushes
orphanedIds(allMessages) ==
    LET map == conversationMap(allMessages)
    IN  UNION {{m.id : m \in orphanedOf(map[c]).metadata \cup orphanedOf(map[c]).enhanced}
                  : c \in DOMAIN map}

RECURSIVE pushes(_, _)
pushes(map, convs) ==
    IF convs = {} THEN 0
    ELSE LET c == CHOOSE x \in convs : TRUE
         IN  Cardinality(orphanedOf(map[c]).metadata)
                + Cardinality(orphanedOf(map[c]).enhanced)
                + pushes(map, convs \ {c})

\* cleanupOrphanedWebsearchMessages(), app.js 1441-1533, without failure
cleanupOrphanedWebsearchMessages ==
    LET map == conversationMap(chatHistory)
        ids == orphanedIds(chatHistory)
    IN  /\ chatHistory' = {m \in chatHistory : m.id \notin ids}
        /\ reply' = [op |-> "cleanup", result |-> <<pushes(map, DOMAIN map)>>,
                     arg |-> 0, before |-> chatHistory]
        /\ UNCHANGED now

\* -------------------------------------------------------- fuzzy matching
\* names of up to MaxName letters, and two names of LongName letters
MaxName == 2
LongName == 200
Letters == {"a", "A", "b"}

Repeat(c, n) == [i \in 1..n |-> c]

Names == UNION {[1..n -> Letters] : n \in 0..MaxName}
             \cup {<<"A", "k", "i">>, <<"A", "k", "k", "i">>}
LongNames == {Repeat("a", LongName), Repeat("a", LongName - 1) \o <<"b">>}

\* s.toLowerCase()
lowerOf(c) == IF c = "A" THEN "a" ELSE c
toLowerCase(str) == [i \in 1..Len(str) |-> lowerOf(str[i])]

Min3(a, b, c) ==
    IF a <= b THEN (IF a <= c THEN a ELSE c) ELSE (IF b <= c THEN b ELSE c)

\* one turn of the inner loop of levenshteinDistance, utils.js 100-107:
\* matrix[i][j] from the cells above, to the left and diagonal; row holds
\* matrix[i][0..j-1], prev holds matrix[i-1][0..len2]
fillCell(prev, row, s1, s2, i) ==
    LET j == Len(row)
        cost == IF s1[i] = s2[j] THEN 0 ELSE 1
    IN  Append(row, Min3(prev[j + 1] + 1, row[j] + 1, prev[j] + cost))

\* Math.round(num / den * 100) for 0 <= num <= den: the nearest integer,
\* a half goes up
roundPercent(num, den) == (200 * num + den) \div (2 * den)

NotCalled == -1
NoMatrix == [filling |-> FALSE, i |-> 0, prev |-> <<>>, row |-> <<>>]
NoNames ==
    /\ str1 = <<>>
    /\ str2 = <<>>
    /\ similarity = NotCalled
    /\ matrix = NoMatrix

\* calculateSimilarity(str1, str2), utils.js 112-125, with
\* levenshteinDistance up to its loops, 83-97: two empty strings, one empty
\* string, or row 0 of the matrix and matrix[1][0]
calculateSimilarity ==
    /\ similarity = NotCalled
    /\ ~matrix.filling
    /\ LET maxLen == Max(Len(str1), Len(str2))
       IN  IF maxLen = 0
           THEN similarity' = 100 /\ UNCHANGED matrix
           ELSE IF str1 = <<>> \/ str2 = <<>>
           THEN /\ similarity' = roundPercent(maxLen - Max(Len(str1), Len(str2)),
                                              maxLen)
                /\ UNCHANGED matrix
           ELSE /\ matrix' = [filling |-> TRUE, i |-> 1,
                              prev |-> [j \in 1..Len(str2) + 1 |-> j - 1],
                              row |-> <<1>>]
                /\ UNCHANGED similarity
    /\ UNCHANGED <<str1, str2>>

\* one cell of the matrix, utils.js 99-108; a full row becomes the row above
\* and the next one starts with matrix[i + 1][0] = i + 1
FillCell ==
    /\ matrix.filling
    /\ matrix.i <= Len(str1)
    /\ LET row == fillCell(matrix.prev, matrix.row, toLowerCase(str1),
                           toLowerCase(str2), matrix.i)
       IN  matrix' = IF Len(row) <= Len(str2)
                     THEN [matrix EXCEPT !.row = row]
                     ELSE [matrix EXCEPT !.i = @ + 1, !.prev = row,
                                         !.row = <<matrix.i + 1>>]
    /\ UNCHANGED <<str1, str2, similarity>>

\* levenshteinDistance returns matrix[len1][len2], utils.js 110, and
\* calculateSimilarity rounds, 124
Rounded ==
    /\ matrix.filling
    /\ matrix.i > Len(str1)
    /\ LET maxLen == Max(Len(str1), Len(str2))
           distance == matrix.prev[Len(str2) + 1]
       IN  similarity' = roundPercent(maxLen - distance, maxLen)
    /\ matrix' = NoMatrix
    /\ UNCHANGED <<str1, str2>>

\* ------------------------------------------------------------------ spec
\* the page after DOMContentLoaded: one stored document, nothing loaded;
\* an earlier session may have paused it at its second paragraph
\* what earlier sessions left in the stores: document d1, never paused or
\* paused at its second paragraph, or both documents, d2 paused at its
\* only paragraph
Library ==
    {<<{"d1"}, [d \in Doc |-> NoPos]>>,
     <<{"d1"}, [d \in Doc |-> IF d = "d1" THEN 1 ELSE NoPos]>>,
     <<{"d1", "d2"}, [d \in Doc |-> IF d = "d1" THEN 1 ELSE 0]>>}

PageLoaded ==
    /\ isFlutter \in BOOLEAN
    /\ currentDocument = NoDoc
    /\ paragraphs = <<>>
    /\ currentParagraphIndex = 0
    /\ currentSentenceIndex = 0
    /\ isPaused = FALSE
    /\ isPlaying = FALSE
    /\ timers = <<>>
    /\ queue = <<>>
    /\ waiting = NoWaiting
    /\ synthPaused = FALSE
    /\ \E lib \in Library : docStore = lib[1] /\ positions = lib[2]
    /\ pending = <<>>
    /\ cmds = 0
    /\ lastReq = NoReq
    /\ mark = NoMark
    /\ afterStop = FALSE
    /\ lastStep = "other"
    /\ endSkip = FALSE
    /\ progress = NoProgress
    /\ run = "none"
    /\ afterFail = FALSE
    /\ stopped = FALSE

\* the player: no file is being read
Init ==
    /\ PageLoaded
    /\ NoText
    /\ NoUpload
    /\ NoCalls
    /\ NoVoices
    /\ NoAttachments
    /\ NoSelection
    /\ NoChat
    /\ NoNames

\* the commands of the user other than Play
Interrupt ==
    \/ togglePauseResume
    \/ Stop
    \/ \E direction \in {-1, 1} : Skip(direction)
    \/ \E d \in docStore : loadDocument(d)
    \/ \E d \in docStore : deleteDocument(d)
    \/ \E d \in Doc : processFile(d)

\* the backend fails: utterance.onerror fires, callHandler('ttsSpeak') rejects
Failure ==
    \/ UtteranceError
    \/ FlutterThrow

\* the other callbacks: speech, timers, storage
Callback ==
    \/ StartTimer
    \/ UtteranceEnd
    \/ NextSentenceTimer
    \/ FlutterResult
    \/ FlutterLoopTimer
    \/ \E i \in 1..MaxPending : DbOpen(i)
    \/ \E i \in 1..MaxPending : SavePosDone(i)
    \/ \E i \in 1..MaxPending : ClearPosDone(i)
    \/ \E i \in 1..MaxPending : LoadDocDone(i)
    \/ \E i \in 1..MaxPending : loadReadingPosition(i)
    \/ \E i \in 1..MaxPending : DeleteDocDone(i)
    \/ \E i \in 1..MaxPending : DeleteDocRefreshed(i)
    \/ \E i \in 1..MaxPending : SaveDocDone(i)

\* this step called saveReadingPosition ("savePos") or
\* clearReadingPosition ("clearPos") for the current document
Started(kind) ==
    /\ Len(pending') = Len(pending) + 1
    /\ pending'[Len(pending')].kind = kind
    /\ pending'[Len(pending')].stage = "open"

\* stopped: stopReading ran (it is the only caller of
\* clearReadingPosition), and since then no pause saved a position and the
\* document is the same
Track ==
    stopped' = IF currentDocument' # currentDocument \/ Started("savePos")
               THEN FALSE
               ELSE IF Started("clearPos") THEN TRUE ELSE stopped

\* run after Play: "clean" when playback starts at the beginning with the
\* speech backend and the storage at rest, "started" when only chains of
\* an earlier playback are still alive, "none" otherwise
RunOf ==
    IF ~isPaused /\ ~synthPaused /\ pending = <<>>
    THEN IF Live = 0 THEN "clean" ELSE "started"
    ELSE "none"

\* every interleaving of at most MaxCmds commands with the callbacks
Next ==
    \/ /\ cmds < MaxCmds
       /\ Play
       /\ cmds' = cmds + 1
       /\ run' = RunOf
       /\ afterFail' = FALSE
       /\ Track
       /\ UNCHANGED offPlayer
    \/ /\ cmds < MaxCmds
       /\ Interrupt
       /\ cmds' = cmds + 1
       /\ run' = "none"
       /\ afterFail' = FALSE
       /\ Track
       /\ UNCHANGED offPlayer
    \/ /\ Failure
       /\ run' = "none"
       /\ afterFail' = (lastStep' = "speak")
       /\ Track
       /\ UNCHANGED <<cmds, offPlayer>>
    \/ /\ Callback
       /\ afterFail' = FALSE
       /\ Track
       /\ UNCHANGED <<cmds, run, offPlayer>>

Spec == Init /\ [][Next]_vars

\* every timer fires, every callback of the backend and of the storage is
\* delivered
LiveSpec == Spec /\ WF_vars(Next /\ cmds' = cmds)

\* the segmenter applied to every text of the bounded set
SegInit ==
    /\ PageLoaded
    /\ isFlutter = FALSE
    /\ positions = [d \in Doc |-> NoPos]
    /\ text \in Texts
    /\ result = NoResult
    /\ NoUpload
    /\ NoCalls
    /\ NoVoices
    /\ NoAttachments
    /\ NoSelection
    /\ NoChat
    /\ NoNames
SegNext == Segment
SegSpec == SegInit /\ [][SegNext]_vars

\* one upload of at most MaxFiles files through either handler
UploadInit ==
    /\ PageLoaded
    /\ isFlutter = FALSE
    /\ positions = [d \in Doc |-> NoPos]
    /\ NoText
    /\ NoUpload
    /\ NoCalls
    /\ NoVoices
    /\ NoAttachments
    /\ NoSelection
    /\ NoChat
    /\ NoNames
UploadNext ==
    \/ /\ \E r \in {"reader", "picker"}, n \in 1..MaxFiles, f \in Files :
             handleFileUpload(r, n, f)
       /\ UNCHANGED offUpload
    \/ /\ \E f \in Files : TakeFile(f)
       /\ UNCHANGED offUpload
    \/ /\ ContentRead
       /\ UNCHANGED offUpload
    \/ /\ LibraryDone
       /\ UNCHANGED offUpload
    \/ /\ StoreDone
       /\ UNCHANGED offUpload
    \/ /\ StoreFailed
       /\ UNCHANGED offUpload
    \/ /\ UploadDone
       /\ UNCHANGED offUpload
UploadSpec == UploadInit /\ [][UploadNext]_vars

\* at most MaxCalls calls of the storage layer on a database with one
\* document, up to two summaries of it and two conversations
StorageInit ==
    /\ PageLoaded
    /\ isFlutter = FALSE
    /\ positions = [d \in Doc |-> NoPos]
    /\ NoText
    /\ NoUpload
    /\ documents = DocIds
    /\ summaries \in {{}, {[id |-> 1, documentId |-> 1]},
                      {[id |-> 1, documentId |-> 1], [id |-> 2, documentId |-> 1]}}
    /\ chatHistory = {[id |-> 3, conversationId |-> 1],
                      [id |-> 4, conversationId |-> 1]}
    /\ calls = <<>>
    /\ created = 4
    /\ NoVoices
    /\ NoAttachments
    /\ NoSelection
    /\ NoChat
    /\ NoNames
StorageNext ==
    \/ /\ \E d \in DocIds : addSummary(d)
       /\ UNCHANGED offStorage
    \/ /\ \E d \in DocIds : deleteDocumentCascade(d)
       /\ UNCHANGED offStorage
    \/ /\ \E c \in ConversationIds : deleteChatConversation(c)
       /\ UNCHANGED offStorage
    \/ /\ \E i \in 1..MaxCalls, ok \in BOOLEAN : GetDocumentDone(i, ok)
       /\ UNCHANGED offStorage
    \/ /\ \E i \in 1..MaxCalls, ok \in BOOLEAN : AddDone(i, ok)
       /\ UNCHANGED offStorage
    \/ /\ \E i \in 1..MaxCalls, ok \in BOOLEAN : GetSummariesDone(i, ok)
       /\ UNCHANGED offStorage
    \/ /\ \E i \in 1..MaxCalls, ok \in BOOLEAN : DeleteSummariesDone(i, ok)
       /\ UNCHANGED offStorage
    \/ /\ \E i \in 1..MaxCalls, ok \in BOOLEAN : DocumentDeleted(i, ok)
       /\ UNCHANGED offStorage
    \/ /\ \E i \in 1..MaxCalls, ok \in BOOLEAN : ScanDone(i, ok)
       /\ UNCHANGED offStorage
    \/ /\ \E i \in 1..MaxCalls, ok \in BOOLEAN : DeleteMessagesDone(i, ok)
       /\ UNCHANGED offStorage
StorageSpec == StorageInit /\ [][StorageNext]_vars

\* every request of a transaction completes, with success or with an error
StorageLiveSpec == StorageSpec /\ WF_vars(StorageNext)

\* the narration of paragraphs on the browser backend while voices come and
\* go, the user picks voices and documents are loaded
VoiceInit ==
    /\ PageLoaded
    /\ isFlutter = FALSE
    /\ positions = [d \in Doc |-> NoPos]
    /\ NoText
    /\ NoUpload
    /\ NoCalls
    /\ voiceList \in VoiceLists
    /\ loadVoices
    /\ savedVoice = NoPreference
    /\ documentLanguage \in Languages \cup {Undefined}
    /\ speaking = NoParagraph
    /\ utterance = NoUtterance
    /\ NoAttachments
    /\ NoSelection
    /\ NoChat
    /\ NoNames
VoiceNext ==
    \/ /\ \E l \in VoiceLists : VoicesChanged(l)
       /\ UNCHANGED offVoice
    \/ /\ \E k \in 0..MaxVoices : updateVoice(k)
       /\ UNCHANGED offVoice
    \/ /\ \E l \in Languages \cup {Undefined} : DocumentLoaded(l)
       /\ UNCHANGED offVoice
    \/ /\ \E n \in 1..MaxSentences : speakParagraphBrowser(n)
       /\ UNCHANGED offVoice
    \/ /\ onend
       /\ UNCHANGED offVoice
    \/ /\ onerror
       /\ UNCHANGED offVoice
    \/ /\ \E interrupted \in BOOLEAN : speakNextSentence(interrupted)
       /\ UNCHANGED offVoice
VoiceSpec == VoiceInit /\ [][VoiceNext]_vars

\* every sequence of calls of the attachment API
AttachInit ==
    /\ PageLoaded
    /\ isFlutter = FALSE
    /\ positions = [d \in Doc |-> NoPos]
    /\ NoText
    /\ NoUpload
    /\ NoCalls
    /\ NoVoices
    /\ NoAttachments
    /\ NoSelection
    /\ NoChat
    /\ NoNames
AttachNext ==
    \/ /\ \E d \in AttachIds : Attach(d)
       /\ UNCHANGED offAttach
    \/ /\ \E d \in AttachIds : Remove(d)
       /\ UNCHANGED offAttach
    \/ /\ Clear
       /\ UNCHANGED offAttach
    \/ /\ \E d \in AttachIds : Toggle(d)
       /\ UNCHANGED offAttach
AttachSpec == AttachInit /\ [][AttachNext]_vars

\* the file picker with MaxSelect stored documents: files are selected,
\* attached and deleted, and every delete may fail
PickerInit ==
    /\ PageLoaded
    /\ isFlutter = FALSE
    /\ positions = [d \in Doc |-> NoPos]
    /\ NoText
    /\ NoUpload
    /\ documents = FileIds
    /\ summaries = {}
    /\ chatHistory = {}
    /\ calls = <<>>
    /\ created = 0
    /\ NoVoices
    /\ NoAttachments
    /\ NoSelection
    /\ NoChat
    /\ NoNames
PickerNext ==
    \/ /\ \E fileId \in FileIds : toggleFileSelection(fileId)
       /\ UNCHANGED offPicker
    \/ /\ attachSelectedFiles
       /\ UNCHANGED offPicker
    \/ /\ deleteSelectedFiles
       /\ UNCHANGED offPicker
    \/ /\ DeleteResolved
       /\ UNCHANGED offPicker
    \/ /\ DeleteRejected
       /\ UNCHANGED offPicker
PickerSpec == PickerInit /\ [][PickerNext]_vars

\* the chat history: messages are saved while the clock runs, read and
\* cleaned up
ChatInit ==
    /\ PageLoaded
    /\ isFlutter = FALSE
    /\ positions = [d \in Doc |-> NoPos]
    /\ NoText
    /\ NoUpload
    /\ NoCalls
    /\ NoVoices
    /\ NoAttachments
    /\ NoSelection
    /\ now = 1
    /\ reply = NoReply
    /\ NoNames
ChatNext ==
    \/ /\ \E role \in Roles, c \in Conversations, enhanced \in BOOLEAN,
             skew \in {0, 1} :
             /\ enhanced => role = "user"
             /\ saveChatMessage(role, c, enhanced, skew)
       /\ UNCHANGED offChat
    \/ /\ Tick
       /\ UNCHANGED offChat
    \/ /\ \E limit \in 0..MaxLimit : getChatHistory(limit)
       /\ UNCHANGED offChat
    \/ /\ cleanupOrphanedWebsearchMessages
       /\ UNCHANGED offChat
ChatSpec == ChatInit /\ [][ChatNext]_vars

\* calculateSimilarity applied to every pair of names
SimilarityInit ==
    /\ PageLoaded
    /\ isFlutter = FALSE
    /\ positions = [d \in Doc |-> NoPos]
    /\ NoText
    /\ NoUpload
    /\ NoCalls
    /\ NoVoices
    /\ NoAttachments
    /\ NoSelection
    /\ NoChat
    /\ \/ str1 \in Names /\ str2 \in Names
       \/ str1 = Repeat("a", LongName) /\ str2 \in LongNames
    /\ similarity = NotCalled
    /\ matrix = NoMatrix
SimilarityNext ==
    \/ /\ calculateSimilarity
       /\ UNCHANGED offSimilarity
    \/ /\ FillCell
       /\ UNCHANGED offSimilarity
    \/ /\ Rounded
       /\ UNCHANGED offSimilarity
SimilaritySpec == SimilarityInit /\ [][SimilarityNext]_vars

TypeOK ==
    /\ isFlutter \in BOOLEAN
    /\ currentDocument \in Doc \cup {NoDoc}
    /\ currentParagraphIndex \in Nat
    /\ currentSentenceIndex \in Nat
    /\ isPaused \in BOOLEAN
    /\ isPlaying \in BOOLEAN
    /\ Len(pending) <= MaxPending
    /\ Live <= MaxChains


\* ----------------------------------------------------------------- claims
Idle == ~isPlaying /\ ~isPaused
AtStart == currentParagraphIndex = 0 /\ currentSentenceIndex = 0

\* r comes before t in (paragraph, sentence) order
Before(r, t) == r[2] < t[2] \/ (r[2] = t[2] /\ r[3] < t[3])

\* the positions store once the operations in flight pd have completed,
\* in their order, if nothing else happens
RECURSIVE Settled(_, _)
Settled(pos, pd) ==
    IF pd = <<>> THEN pos
    ELSE LET op == Head(pd)
             d == IF op.stage = "open" THEN currentDocument ELSE op.doc
             v == IF op.kind = "clearPos" THEN NoPos
                  ELSE IF op.stage = "open" THEN currentParagraphIndex
                  ELSE op.val
         IN  IF op.kind \in {"savePos", "clearPos"} /\ d # NoDoc
             THEN Settled([pos EXCEPT ![d] = v], Tail(pd))
             ELSE Settled(pos, Tail(pd))

SettledPositions == Settled(positions, pending)

\* C1: in every reachable state 0 <= currentParagraphIndex <=
\* paragraphs.length, and the controller is stopped when the index equals
\* the length.
C1_IndexInRange ==
    /\ 0 <= currentParagraphIndex
    /\ currentParagraphIndex <= Len(paragraphs)
    /\ currentParagraphIndex = Len(paragraphs) => ~isPlaying

\* C2: the backend never works on more than one speak request.
C2_OneOutstanding == Outstanding <= 1

\* C3: the callback of a request that a skip or a stop cancelled changes
\* neither index and makes no new speak request.
C3_StaleCallbackIgnored ==
    [][(\E u \in BagToSet(waiting) :
           /\ u.utt \in {"skipped", "stopped"}
           /\ CopiesIn(u, waiting') < CopiesIn(u, waiting))
       => /\ currentParagraphIndex' = currentParagraphIndex
          /\ currentSentenceIndex' = currentSentenceIndex
          /\ lastStep' # "speak"]_vars

\* C4: the first speak request after a resume is the sentence that was
\* being narrated when the pause was issued.
C4_ResumeSameSentence ==
    [][mark.cmd = "resume" /\ lastStep' = "speak" => lastReq' = mark.want]_vars

\* C5: from a start or a skip to the next skip, every speak request comes
\* after the one before it in (paragraph, sentence) order.
C5_AscendingOrder ==
    [][lastStep' = "speak" /\ lastReq # NoReq => Before(lastReq, lastReq')]_vars

\* C6: a stop issued while playing or paused leaves the controller idle at
\* paragraph 0, sentence 0, with no request at the backend, and the indices
\* are still 0 when the callbacks and timers of the chains have run.
C6_StopResetsCursor ==
    afterStop =>
        /\ Idle
        /\ Outstanding = 0
        /\ (lastStep \in {"stop", "stop2"} \/ Live = 0) => AtStart

\* C7: a stop that follows a stop changes nothing: the controller is idle
\* at paragraph 0, sentence 0, as the first stop left it, the backend and
\* the document are untouched, and the position of the current document is
\* cleared once the storage operations have completed.
C7_StopIdempotent ==
    [][lastStep' = "stop2" =>
          /\ ctl' = ctl
          /\ backend' = backend
          /\ docv' = docv
          /\ Idle'
          /\ AtStart'
          /\ SettledPositions' = SettledPositions
          /\ currentDocument # NoDoc => SettledPositions'[currentDocument] = NoPos]_vars

C7_Witness ==
    /\ lastStep = "stop2"
    /\ afterStop
    /\ currentDocument # NoDoc
    /\ \E u \in BagToSet(waiting) : u.utt = "stopped"

\* C8: the first speak request after a skip issued while playing is
\* sentence 0 of the paragraph the skip moved to.
C8_SkipTarget ==
    [][mark.cmd = "skip" /\ lastStep' = "speak" => lastReq' = mark.want]_vars

\* C9: a skip past the last paragraph leaves the controller idle at
\* paragraph 0, sentence 0, and no speak request follows until playback is
\* started again.
C9_SkipPastEnd ==
    [][/\ ~endSkip /\ endSkip' => Idle' /\ AtStart' /\ Outstanding' = 0
       /\ endSkip' => ~isPlaying' /\ lastStep' # "speak"]_vars

C9_Witness ==
    /\ endSkip
    /\ currentDocument # NoDoc
    /\ \E u \in BagToSet(waiting) : u.utt = "skipped"

\* C10: the first speak request after Play pressed in a state that is not
\* paused is sentence 0 of paragraph 0 of the current document.
C10_StartAtBeginning ==
    [][mark.cmd = "start" /\ lastStep' = "speak" => lastReq' = mark.want]_vars


\* the last sentence of the last paragraph of the document
LastOf ==
    <<currentDocument, Len(paragraphs) - 1,
      paragraphs[Len(paragraphs)].sentences - 1>>

\* the sentence after request r in reading order
NextOf(r) ==
    IF r[3] + 1 < paragraphs[r[2] + 1].sentences
    THEN <<r[1], r[2], r[3] + 1>>
    ELSE <<r[1], r[2] + 1, 0>>

\* request req follows request prev; the first request is sentence 0 of
\* paragraph 0
InOrder(prev, req) ==
    IF prev = NoReq THEN req = <<currentDocument, 0, 0>>
    ELSE prev[2] < Len(paragraphs) /\ req = NextOf(prev)

\* C11: when playback is started, the user issues no further command and
\* no request fails, the sentences are requested one after the other from
\* sentence 0 of paragraph 0, each once, playback ends only after the last
\* sentence of the last paragraph has been narrated, and it does end.
C11_NarratesAll ==
    /\ [][run # "none" /\ run' # "none" =>
            /\ lastStep' = "speak" => InOrder(lastReq, lastReq')
            /\ isPlaying /\ ~isPlaying' => lastReq = LastOf /\ Outstanding = 0]_vars
    /\ (run # "none" /\ isPlaying ~> run = "none" \/ ~isPlaying)

\* C11 restricted to a playback started with no chain of an earlier
\* playback alive: then the claim holds
C11_CleanRun ==
    /\ [][run = "clean" /\ run' = "clean" =>
            /\ lastStep' = "speak" => InOrder(lastReq, lastReq')
            /\ isPlaying /\ ~isPlaying' => lastReq = LastOf /\ Outstanding = 0]_vars
    /\ (run = "clean" /\ isPlaying ~> run # "clean" \/ ~isPlaying)

C11_CleanRunWitness ==
    /\ run = "clean"
    /\ ~isPlaying
    /\ lastReq = LastOf
    /\ Len(paragraphs) = 2


\* C12: when the sentence being narrated fails and the failure callback
\* makes the next speak request, that request is the next sentence of the
\* paragraph, or sentence 0 of the next paragraph after the last sentence.
C12_FailureContinues ==
    [][afterFail' /\ Narrating # NoReq /\ Narrating[1] = currentDocument
       => lastReq' = NextOf(Narrating)]_vars

\* C13: the pause command issued in the Paused state leaves the controller
\* paused at the same paragraph and sentence and starts no narration.
C13_PauseIdempotent ==
    [][isPlaying /\ isPaused /\ lastStep' = "toggle" =>
          /\ isPlaying' /\ isPaused'
          /\ currentParagraphIndex' = currentParagraphIndex
          /\ currentSentenceIndex' = currentSentenceIndex
          /\ backend' = backend]_vars

\* C14: after a pause issued while a sentence is narrated, and until the
\* next command, no callback and no timer of a narration chain makes a
\* speak request or changes currentParagraphIndex or currentSentenceIndex.
C14_PausedFrame ==
    [][/\ isPlaying /\ isPaused
       /\ mark.cmd = "pause"
       /\ cmds' = cmds
       /\ Len(pending') >= Len(pending)
       => /\ lastStep' # "speak"
          /\ currentParagraphIndex' = currentParagraphIndex
          /\ currentSentenceIndex' = currentSentenceIndex]_vars

C16_PausedImpliesPlaying == isPaused => isPlaying


\* t has no character other than whitespace
Blank(t) == \A i \in 1..Len(t) : IsSpace(t[i])

\* t without its whitespace
RECURSIVE strip(_)
strip(t) ==
    IF t = <<>> THEN <<>>
    ELSE IF IsSpace(Head(t)) THEN strip(Tail(t))
    ELSE <<Head(t)>> \o strip(Tail(t))

\* the sentences of a paragraph one after the other
RECURSIVE concat(_)
concat(a) == IF a = <<>> THEN <<>> ELSE Head(a) \o concat(Tail(a))

Trimmed(t) == t # <<>> => ~IsSpace(t[1]) /\ ~IsSpace(t[Len(t)])

\* every paragraph has a sentence and no sentence is empty
SentencesPresent ==
    \A i \in 1..Len(result.paragraphs) :
       LET p == result.paragraphs[i]
       IN  /\ Len(p.sentences) >= 1
           /\ \A k \in 1..Len(p.sentences) : p.sentences[k] # <<>>

\* C17 as stated: for every non-empty text splitIntoParagraphs returns at
\* least one paragraph, and every paragraph has at least one sentence and
\* no empty sentence.
C17_NonEmptyText ==
    result.done /\ text # <<>> =>
        Len(result.paragraphs) >= 1 /\ SentencesPresent

\* C17, amended: for every text with a character that is not whitespace
\* splitIntoParagraphs returns at least one paragraph; whatever the text,
\* every paragraph returned has at least one sentence and no empty sentence.
C17_NonBlankText ==
    result.done =>
        /\ ~Blank(text) => Len(result.paragraphs) >= 1
        /\ SentencesPresent

C17_Witness ==
    /\ result.done
    /\ text # Example
    /\ Len(result.paragraphs) = 2

\* C18: for every paragraph, the sentences concatenated, without their
\* whitespace, are the text of the paragraph without its whitespace.
C18_RoundTrip ==
    result.done =>
        \A i \in 1..Len(result.paragraphs) :
           LET p == result.paragraphs[i]
           IN  strip(concat(p.sentences)) = strip(p.text)

\* C19: the example text gives 2 paragraphs with the sentences
\* "Hello world.", "This is a test!", "Really?" and
\* "Second paragraph here."; in every result each sentence is trimmed, each
\* sentence but the last of its paragraph ends with punctuation, and no
\* sentence holds punctuation followed by whitespace.
C19_SentenceBoundaries ==
    result.done =>
        /\ text = Example =>
              /\ Len(result.paragraphs) = 2
              /\ result.paragraphs[1].sentences =
                    <<SubSeq(Example, 1, 12), SubSeq(Example, 14, 28),
                      SubSeq(Example, 30, 36)>>
              /\ result.paragraphs[2].sentences = <<SubSeq(Example, 39, 60)>>
        /\ \A i \in 1..Len(result.paragraphs) :
              LET ss == result.paragraphs[i].sentences
              IN  \A k \in 1..Len(ss) :
                     /\ Trimmed(ss[k])
                     /\ k < Len(ss) => IsPunct(ss[k][Len(ss[k])])
                     /\ \A m \in 1..(Len(ss[k]) - 1) :
                           ~(IsPunct(ss[k][m]) /\ IsSpace(ss[k][m + 1]))

C19_Witness == result.done /\ text = Example

\* C20: for the empty text and for every text of whitespace only
\* splitIntoParagraphs returns no paragraph.
C20_BlankText ==
    result.done /\ Blank(text) => result.paragraphs = <<>>

C20_Witness ==
    /\ result.done
    /\ Len(text) >= 2
    /\ Blank(text)
    /\ \E i \in 1..Len(text) : text[i] = "\n"


\* t[i..j] is a whitespace run with two newlines at its ends
BlankLine(t, i, j) ==
    /\ i < j
    /\ t[i] = "\n"
    /\ t[j] = "\n"
    /\ \A m \in i..j : IsSpace(t[m])

NoBlankLine(t) == \A i, j \in 1..Len(t) : ~BlankLine(t, i, j)

\* the places of t where a chunk ends and the next one starts: two
\* characters that are not whitespace, with only whitespace and at least
\* two newlines between them
Breaks(t) ==
    {<<i, j>> \in (1..Len(t)) \X (1..Len(t)) :
        /\ i < j
        /\ ~IsSpace(t[i])
        /\ ~IsSpace(t[j])
        /\ \A m \in (i + 1)..(j - 1) : IsSpace(t[m])
        /\ Cardinality({m \in (i + 1)..(j - 1) : t[m] = "\n"}) >= 2}

ParagraphTexts == [i \in 1..Len(result.paragraphs) |-> result.paragraphs[i].text]

\* C21: the paragraphs are the maximal chunks between whitespace runs with
\* at least two newlines, in source order: there is one more paragraph than
\* there are such runs between two characters of the text, the paragraphs
\* one after the other hold the characters of the text in their order, and
\* each paragraph text is non-empty, trimmed and without such a run;
\* the numbers are 1..n in order.
C21_MaximalChunks ==
    result.done =>
        /\ Len(result.paragraphs) =
              IF Blank(text) THEN 0 ELSE Cardinality(Breaks(text)) + 1
        /\ strip(concat(ParagraphTexts)) = strip(text)
        /\ \A i \in 1..Len(result.paragraphs) :
              LET p == result.paragraphs[i]
              IN  /\ p.number = i
                  /\ p.text # <<>>
                  /\ Trimmed(p.text)
                  /\ NoBlankLine(p.text)

\* a text with a blank line that holds a space, and a newline inside a
\* paragraph
C21_Witness ==
    /\ result.done
    /\ Len(result.paragraphs) = 2
    /\ \E i \in 1..(Len(text) - 2) :
          text[i] = "\n" /\ text[i + 1] = " " /\ text[i + 2] = "\n"


MiB == 1024 * 1024

\* the text of the file in hand is not blank and has between 10 and
\* 100000 characters
LengthInBounds == file.chars # 0 /\ 10 <= file.chars /\ file.chars <= 100000

\* C22: validateDocument accepts a text exactly when it is not blank and
\* has between 10 and 100000 characters (so 10 and 100000 are accepted, 9
\* and 100001 rejected); extractTextFromFile returns the accepted texts
\* and fails with the validation message for the others.
C22_ValidationBounds ==
    touched.validated =>
        /\ touched.returned <=> LengthInBounds
        /\ ~touched.returned => verdict = "invalid"
        /\ validateDocument(trimmed(RawText(file))).valid <=> LengthInBounds

\* a text of 100000 characters was stored, the next, of 100001, is refused
C22_Witness ==
    /\ Len(uploaded) = 1
    /\ uploaded[1].length = 100000
    /\ touched.validated
    /\ file.chars = 100001
    /\ verdict = "invalid"

\* the file is over a ceiling
Oversize(f, r) ==
    \/ f.ext = "pdf" /\ f.size > 5 * MiB
    \/ f.ext = "docx" /\ f.size > 2 * MiB
    \/ r = "reader" /\ f.size > 10 * MiB

\* the file is at a ceiling and over none
AtCeiling(f, r) ==
    /\ ~Oversize(f, r)
    /\ \/ f.ext = "pdf" /\ f.size = 5 * MiB
       \/ f.ext = "docx" /\ f.size = 2 * MiB
       \/ r = "reader" /\ f.size = 10 * MiB

\* C23: a file over a ceiling (pdf 5 MiB, docx 2 MiB, reader 10 MiB) is
\* rejected before its content is read or a library is called and is not
\* stored; a file of exactly the ceiling is not rejected for its size.
C23_SizeBeforeExtraction ==
    /\ fileIndex > 0 /\ Oversize(file, route) =>
          /\ verdict \in {"size", "type"}
          /\ ~touched.read
          /\ ~touched.parsed
          /\ \A i \in 1..Len(uploaded) : uploaded[i].file # fileIndex
    /\ fileIndex > 0 /\ AtCeiling(file, route) => verdict # "size"

\* a docx of one byte more than 2 MiB in the reader; the file before it, at
\* the ceiling, was stored
C23_Witness ==
    /\ route = "reader"
    /\ file.ext = "docx"
    /\ file.size = 2 * MiB + 1
    /\ verdict = "size"
    /\ outcomes = <<"stored", "size">>

\* the file would be stored if it were uploaded alone: a supported type
\* within the ceilings of the handler, a content the library reads, a text
\* within the bounds of the handler
Acceptable(f, r) ==
    /\ f.ext \in {"pdf", "docx", "txt"}
    /\ ~f.corrupt
    /\ f.size <= (IF f.ext = "pdf" THEN 5 * MiB
                  ELSE IF f.ext = "docx" \/ r = "picker" THEN 2 * MiB
                  ELSE 10 * MiB)
    /\ (IF r = "reader" THEN 100 ELSE 10) <= f.chars
    /\ f.chars <= 100000

\* C24: the files of an upload are processed one at a time in their order,
\* and a failure aborts only its file: whatever happened to the files
\* before it, a file ends stored (or with the failure of its own store
\* request) exactly when it is valid by itself; the handler returns only
\* after the last file, and the documents stored are those files, in order.
C24_FailuresAreLocal ==
    /\ verdict # "none" =>
          (verdict \in {"stored", "store"} <=> Acceptable(file, route))
    /\ pc = "done" => Len(outcomes) = batch
    /\ Len(outcomes) \in {fileIndex - 1, fileIndex}
    /\ \A i \in 1..Len(uploaded) :
          /\ outcomes[uploaded[i].file] = "stored"
          /\ i > 1 => uploaded[i - 1].file < uploaded[i].file
    /\ \A k \in 1..Len(outcomes) :
          outcomes[k] = "stored" => \E i \in 1..Len(uploaded) : uploaded[i].file = k

\* the first file failed in its library, the second is stored
C24_Witness ==
    /\ pc = "done"
    /\ outcomes = <<"extract", "stored">>
    /\ Len(uploaded) = 1
    /\ uploaded[1].file = 2

\* C25: every document an upload stores has a text of at least 100 and at
\* most 100000 characters, in the reader and in the file picker.
C25_StoredBounds ==
    \A i \in 1..Len(uploaded) :
        100 <= uploaded[i].length /\ uploaded[i].length <= 100000


\* C26: once deleteDocument(id) has resolved, the documents store holds no
\* document with that id and the summaries store no summary of it.
C26_DeleteCascades ==
    \A i \in 1..Len(calls) :
        calls[i].op = "deleteDocument" /\ calls[i].outcome = "resolved" =>
            /\ calls[i].arg \notin documents
            /\ \A m \in summaries : m.documentId # calls[i].arg

\* C27: a call of the storage layer one of whose requests failed ends
\* rejected: it does not resolve, and it does not stay unsettled.
C27_FailureRejects ==
    \A i \in 1..Len(calls) :
        calls[i].failed => calls[i].outcome = "rejected"


Restores(i) ==
    /\ i \in 1..Len(pending)
    /\ loadReadingPosition(i)
    /\ positions[pending[i].doc] # NoPos
    /\ positions[pending[i].doc] < Len(paragraphs)

\* C30: a paragraph index restored from storage after document D was
\* loaded is the persisted index of D itself and less than the number of
\* paragraphs of D; when the user declines, the index is 0; also when the
\* position reads of two loads overlap.
C30_OwnPosition ==
    [][\A i \in 1..MaxPending :
          Restores(i) =>
             /\ pending[i].doc = currentDocument
             /\ currentParagraphIndex' \in {0, positions[currentDocument]}
             /\ currentParagraphIndex' < Len(DocParagraphs(currentDocument))
             /\ ~isPaused' => currentParagraphIndex' = 0]_vars

\* the voices there are, and the first of them for a 2-letter code
Available(name) == \E i \in 1..Len(voiceList) : voiceList[i].name = name
Matching(code) ==
    {i \in 1..Len(voiceList) : startsWith(voiceList[i].lang, code)}
FirstFor(code) ==
    voiceList[CHOOSE i \in Matching(code) : \A j \in Matching(code) : i <= j].name

\* the voice the fixed priority gives for a language: the saved one when
\* it is available, else the first of the language, else the default
ByPriority(language) ==
    LET code == SubSeq(language, 1, 2)
    IN  IF savedVoice[code] # NoVoice /\ Available(savedVoice[code])
        THEN savedVoice[code]
        ELSE IF Matching(code) # {} THEN FirstFor(code) ELSE NoVoice

\* a step that hands a sentence to window.speechSynthesis.speak
Utters ==
    /\ \/ \E n \in 1..MaxSentences : speakParagraphBrowser(n)
       \/ \E interrupted \in BOOLEAN : speakNextSentence(interrupted)
    /\ speaking'.isSpeaking

\* the priority holds for the language the utterance is spoken in
SpokenLanguagePriority ==
    [][Utters => utterance'.voice = ByPriority(utterance'.lang)]_vars

\* C29: every sentence spoken on the browser backend gets the voice the
\* fixed priority gives (saved voice of the language's 2-letter code if
\* available, else the first voice of that code, else the default),
\* computed at the utterance from the language of the current document.
C29_VoicePriority ==
    [][Utters =>
          utterance'.voice = ByPriority(languageOf(documentLanguage))]_vars

\* C31: during one playback session every sentence sent to the backend
\* belongs to the document that was current when the session started: two
\* speak requests of the same session, with no play, stop or skip command
\* between them, are never for sentences of different documents.
C31_SessionDocument ==
    [][(/\ isPlaying /\ isPlaying'
        /\ lastReq # NoReq
        /\ lastStep' = "speak")
          => lastReq'[1] = lastReq[1]]_vars

\* the files of the reader upload that failed before and at the save
FailedEarly ==
    {i \in 1..Len(outcomes) :
        outcomes[i] \in {"type", "size", "extract", "invalid", "short"}}
FailedFiles == {i \in 1..Len(outcomes) : outcomes[i] # "stored"}

\* a file that fails before the save leaves the document as it was
EarlyFailureKeepsDocument ==
    route = "reader" => readerDocument \notin FailedEarly

\* C32: a failed ingestion leaves the current document of the player
\* unchanged: currentDocument and paragraphs are never those built from a
\* file that processFile failed on, at whichever step it failed.
C32_FailureKeepsDocument ==
    route = "reader" => readerDocument \notin FailedFiles

\* C33: deleteDocument(id) of the storage layer always settles: whatever
\* the outcome of its store requests, every call of it eventually resolves
\* or rejects.
C33_DeleteSettles ==
    \A i \in 1..MaxCalls :
        []((Len(calls) >= i /\ calls[i].op = "deleteDocument")
              => <>(Len(calls) >= i /\ calls[i].outcome # "pending"))

\* the ids of the stored list, and the places of an id in it
AttachedIds == getAttachedDocumentIds(attached)
Places(ids, d) == {i \in 1..Len(ids) : ids[i] = d}
Members(ids) == {ids[i] : i \in 1..Len(ids)}
NoDuplicate(ids) == \A d \in AttachIds : Cardinality(Places(ids, d)) <= 1

\* a is b without d: the other ids are all there, once each as in b, and
\* in the order they have in b
Without(a, b, d) ==
    /\ Members(a) = Members(b) \ {d}
    /\ \A x \in Members(a) : Cardinality(Places(a, x)) = Cardinality(Places(b, x))
    /\ \A i, j \in 1..Len(a) :
          i < j => \E k, l \in 1..Len(b) : k < l /\ b[k] = a[i] /\ b[l] = a[j]

\* C34: after any sequence of attach, remove, toggle and clear calls the
\* stored list of attached ids has no duplicate; attaching an id a second
\* time changes nothing; removing an id leaves every other id and their
\* order; toggling an id twice restores the membership of every id.
C34_AttachedList ==
    /\ NoDuplicate(AttachedIds)
    /\ \A d \in AttachIds :
          LET once == attachDocument(attached, d)
              twice == attachDocument(once, d)
              removed == removeAttachedDocument(attached, d)
              toggled == toggleDocumentAttachment(attached, d).item
              back == toggleDocumentAttachment(toggled, d).item
          IN  /\ twice = once
              /\ includes(getAttachedDocumentIds(once), d)
              /\ Without(getAttachedDocumentIds(removed), AttachedIds, d)
              /\ Members(getAttachedDocumentIds(back)) = Members(AttachedIds)
              /\ includes(getAttachedDocumentIds(toggled), d)
                     = ~includes(AttachedIds, d)

\* three documents are attached, the last call removed the one that was
\* in the middle
C34_Witness ==
    /\ Len(AttachedIds) = 3
    /\ lastCall.op \in {"remove", "toggle"}
    /\ Len(getAttachedDocumentIds(lastCall.before)) = 4
    /\ getAttachedDocumentIds(lastCall.before)[2] = lastCall.id

\* C35: when deleteSelectedFiles has ended, every document it deleted is
\* out of the attached list, a document it took out of the attached list
\* was deleted, also when a delete failed part-way, and after a run without
\* failure the selection is empty.
C35_DetachedIffDeleted ==
    deletion.pc \in {"finished", "failed"} =>
        /\ \A d \in deletion.deleted : ~includes(AttachedIds, d)
        /\ \A d \in deletion.detached : d \notin documents
        /\ deletion.pc = "finished" => selectedForDeletionIds = <<>>

\* the messages of a sequence
Returned36(r) == {r[i] : i \in 1..Len(r)}
Smaller(a, b) == IF a <= b THEN a ELSE b

\* C36: getChatHistory(limit) returns at most limit messages, they are the
\* limit most recent messages of the store, from the newest to the oldest
\* by timestamp.
C36_RecentFirst ==
    reply.op = "history" =>
        LET r == reply.result
            limit == reply.arg
        IN  /\ Len(r) <= limit
            /\ Len(r) = Smaller(limit, Cardinality(chatHistory))
            /\ Returned36(r) \subseteq chatHistory
            /\ Cardinality(Returned36(r)) = Len(r)
            /\ \A i, j \in 1..Len(r) : i < j => r[i].timestamp >= r[j].timestamp
            /\ \A m \in chatHistory \ Returned36(r) :
                  \A i \in 1..Len(r) : r[i].timestamp >= m.timestamp

\* three messages are stored, two of them with the same timestamp, and
\* two were asked for
C36_Witness ==
    /\ reply.op = "history"
    /\ reply.arg = 2
    /\ Cardinality(chatHistory) = 3
    /\ \E m, n \in chatHistory : m # n /\ m.timestamp = n.timestamp

\* C37: no chat message is lost: every call of saveChatMessage resolves
\* with an id that no earlier message has, and the message is in the
\* store, where getChatHistory finds it; also for two calls within the
\* same millisecond.
C37_NoMessageLost ==
    reply.op = "save" =>
        /\ reply.result[1] = "resolved"
        /\ \A m \in reply.before : m.id # reply.arg
        /\ \E i \in 1..Cardinality(chatHistory) :
              cursor(chatHistory, 0, Cardinality(chatHistory))[i].id = reply.arg
        /\ reply.before \subseteq chatHistory

\* the conversations of search messages only, and the enhanced user
\* messages
SearchOnly(S) ==
    {c \in DOMAIN conversationMap(S) :
        \A m \in conversationMap(S)[c] :
            m.role \in {"search_query", "search_results"}}
Enhanced(S) == {m \in S : m.role = "user" /\ m.enhanced}

\* C38: after cleanupOrphanedWebsearchMessages has resolved, no
\* conversation consists of search messages only and no user message is an
\* enhanced one; the number it resolved with is the number of messages
\* removed, the other messages are unchanged, and a second cleanup right
\* after it would delete nothing and resolve with 0.
C38_CleanupComplete ==
    reply.op = "cleanup" =>
        /\ SearchOnly(chatHistory) = {}
        /\ Enhanced(chatHistory) = {}
        /\ chatHistory \subseteq reply.before
        /\ reply.result[1] = Cardinality(reply.before \ chatHistory)
        /\ orphanedIds(chatHistory) = {}
        /\ pushes(conversationMap(chatHistory),
                  DOMAIN conversationMap(chatHistory)) = 0

\* C39: calculateSimilarity(a, b) is an integer from 0 to 100 for all
\* strings, it is 100 exactly when a and b are equal ignoring letter case,
\* and "Aki" against "Akki" gives 75.
C39_SimilarityRange ==
    similarity # NotCalled =>
        /\ similarity \in 0..100
        /\ similarity = 100 <=> toLowerCase(str1) = toLowerCase(str2)
        /\ (str1 = <<"A", "k", "i">> /\ str2 = <<"A", "k", "k", "i">>)
              => similarity = 75

\* the same for names of less than LongName letters
ShortNamesSimilarity ==
    (similarity # NotCalled /\ Len(str1) < LongName /\ Len(str2) < LongName) =>
        /\ similarity \in 0..100
        /\ similarity = 100 <=> toLowerCase(str1) = toLowerCase(str2)
        /\ (str1 = <<"A", "k", "i">> /\ str2 = <<"A", "k", "k", "i">>)
              => similarity = 75

=============================================================================
